---------------------------- MODULE Spec2Model ----------------------------
(***************************************************************************)
(* ISO 7816-4 command APDU codec (crate iso7816): the length-field grammar *)
(* (parse_lengths / header_data), the command builder with its chaining    *)
(* split (should_split, ChainedCommandIterator) and the receiving side     *)
(* (CommandView::try_from, to_owned, extend_from_command_view).            *)
(*                                                                         *)
(* Bytes are integers 0..255, byte strings are sequences.  A panic of the  *)
(* Rust code (index out of bounds, unreachable!(), panic!()) is an         *)
(* explicit "Panic" outcome.                                               *)
(***************************************************************************)
EXTENDS Integers, Sequences, FiniteSets, TLC

(***************************************************************************)
(* Program constants                                                       *)
(***************************************************************************)
U8_MAX == 255
U16_MAX == 65535
HEADER_LEN == 4
SHORT_LE_MAX == 256
EXT_LE_MAX == 65536
CHAIN_BIT == 16
INVALID_CLA == 255
DEFAULT_BUFFER_LEN == 261

Byte == 0..U8_MAX

Min(a, b) == IF a <= b THEN a ELSE b

\* usize::saturating_sub
SaturatingSub(a, b) == IF a >= b THEN a - b ELSE 0

\* u16::to_be_bytes
ToBeBytes(n) == <<n \div 256, n % 256>>

\* u16::from_be_bytes
FromBeBytes(hi, lo) == hi * 256 + lo

\* bitwise test / set of bit 4 of a byte (cla & (1 << 4), cla | (1 << 4))
HasBit4(b) == (b \div CHAIN_BIT) % 2 = 1
SetBit4(b) == IF HasBit4(b) THEN b ELSE b + CHAIN_BIT

(***************************************************************************)
(* command/class.rs                                                        *)
(***************************************************************************)
\* Range::from_cla that accepts every byte
Range_from_cla_all(cla) ==
    CASE cla \div 32 = 0 -> "First"
      [] cla \div 32 \in {2, 3} -> "Further"
      [] cla \div 32 = 1 -> "Reserved"
      [] OTHER -> "Proprietary"

\* Range::from_cla: Err(InvalidClass) for 0xFF, else the range of cla >> 5
Range_from_cla(cla) ==
    IF cla = INVALID_CLA THEN "InvalidClass"
    ELSE CASE cla \div 32 = 0 -> "First"
           [] cla \div 32 \in {2, 3} -> "Further"
           [] cla \div 32 = 1 -> "Reserved"
           [] OTHER -> "Proprietary"

\* Class::try_from / Class::from_byte
Class_try_from(cla) ==
    IF Range_from_cla(cla) = "InvalidClass"
    THEN [ok |-> FALSE, cla |-> cla, range |-> "InvalidClass"]
    ELSE [ok |-> TRUE, cla |-> cla, range |-> Range_from_cla(cla)]

\* a valid Class value {cla, range}
MkClass(cla) == [cla |-> cla, range |-> Range_from_cla(cla)]

\* as_chained that leaves the class byte alone
as_chained_noop(class) == class

\* Class::as_chained: sets bit 4 of cla, leaves the cached range alone
as_chained(class) == [class EXCEPT !.cla = SetBit4(class.cla)]

\* Class::secure_messaging: by the cached range; First reads bits 2-3,
\* Further tests (cla >> 5) != 0
secure_messaging(class) ==
    CASE class.range = "First" ->
            CASE (class.cla \div 4) % 4 = 0 -> "None"
              [] (class.cla \div 4) % 4 = 1 -> "Proprietary"
              [] (class.cla \div 4) % 4 = 2 -> "Standard"
              [] OTHER -> "Authenticated"
      [] class.range = "Further" ->
            IF (class.cla \div 32) # 0 THEN "Standard" ELSE "None"
      [] class.range = "Reserved" -> "Unknown"
      [] OTHER -> "Unknown"

\* Class::chain
chain(class) == IF HasBit4(class.cla) THEN "NotTheLast" ELSE "LastOrOnly"

(***************************************************************************)
(* command/instruction.rs                                                  *)
(***************************************************************************)
\* From<u8> for Instruction
Instruction_from(ins) ==
    CASE ins = 32 -> [variant |-> "Verify", byte |-> 0]
      [] ins = 36 -> [variant |-> "ChangeReferenceData", byte |-> 0]
      [] ins = 44 -> [variant |-> "ResetRetryCounter", byte |-> 0]
      [] ins = 71 -> [variant |-> "GenerateAsymmetricKeyPair", byte |-> 0]
      [] ins = 135 -> [variant |-> "GeneralAuthenticate", byte |-> 0]
      [] ins = 164 -> [variant |-> "Select", byte |-> 0]
      [] ins = 192 -> [variant |-> "GetResponse", byte |-> 0]
      [] ins = 203 -> [variant |-> "GetData", byte |-> 0]
      [] ins = 219 -> [variant |-> "PutData", byte |-> 0]
      [] ins = 176 -> [variant |-> "ReadBinary", byte |-> 0]
      [] ins = 208 -> [variant |-> "WriteBinary", byte |-> 0]
      [] OTHER -> [variant |-> "Unknown", byte |-> ins]

\* a conversion to u8 that reads the payload byte of every variant
Instruction_into_payload(i) == i.byte

\* From<Instruction> for u8
Instruction_into(i) ==
    CASE i.variant = "Verify" -> 32
      [] i.variant = "ChangeReferenceData" -> 36
      [] i.variant = "ResetRetryCounter" -> 44
      [] i.variant = "GenerateAsymmetricKeyPair" -> 71
      [] i.variant = "GeneralAuthenticate" -> 135
      [] i.variant = "Select" -> 164
      [] i.variant = "GetResponse" -> 192
      [] i.variant = "GetData" -> 203
      [] i.variant = "PutData" -> 219
      [] i.variant = "ReadBinary" -> 176
      [] i.variant = "WriteBinary" -> 208
      [] OTHER -> i.byte

(***************************************************************************)
(* ExpectedLen (command.rs 177-196)                                        *)
(***************************************************************************)
Ne(n) == [tag |-> "Ne", len |-> n]
Max == [tag |-> "Max", len |-> 0]

\* derived Ord on ExpectedLen: Ne(a) < Ne(b) iff a < b, Ne(_) < Max
ExpectedLen_le(a, b) ==
    \/ b.tag = "Max"
    \/ a.tag = "Ne" /\ b.tag = "Ne" /\ a.len <= b.len

\* Ord::min
ExpectedLen_min(a, b) == IF ExpectedLen_le(a, b) THEN a ELSE b

\* From<ExpectedLen> for usize: Max maps to u16::MAX
ExpectedLen_into_usize(e) == IF e.tag = "Max" THEN U16_MAX ELSE e.len


(***************************************************************************)
(* Writer (command/writer.rs): a fixed-capacity sink (heapless::Vec,       *)
(* &mut [u8], the fuzz target's WriteMock) or a growable Vec<u8>.          *)
(***************************************************************************)
NewWriter(capacity) == [buf |-> <<>>, capacity |-> capacity, growable |-> FALSE]
NewVec == [buf |-> <<>>, capacity |-> 0, growable |-> TRUE]

\* Writer::write that takes the whole of data or nothing
Writer_write_whole(w, data) ==
    LET amt == IF w.growable \/ Len(data) <= w.capacity - Len(w.buf)
               THEN Len(data) ELSE 0
    IN  IF amt = 0 /\ ~w.growable
        THEN [ok |-> FALSE, n |-> 0, w |-> w]
        ELSE [ok |-> TRUE, n |-> amt,
              w |-> [w EXCEPT !.buf = w.buf \o SubSeq(data, 1, amt)]]

\* Writer::write: accepts min(len, room) bytes, Err(BufferFull) when that is 0
Writer_write(w, data) ==
    LET amt == IF w.growable THEN Len(data)
               ELSE Min(Len(data), w.capacity - Len(w.buf))
    IN  IF amt = 0 /\ ~w.growable
        THEN [ok |-> FALSE, n |-> 0, w |-> w]
        ELSE [ok |-> TRUE, n |-> amt,
              w |-> [w EXCEPT !.buf = w.buf \o SubSeq(data, 1, amt)]]

\* Writer::write_all: loops write() over data[offset..] until all is accepted;
\* calls counts the write() calls made
RECURSIVE write_all_from(_, _, _, _)
write_all_from(w, data, offset, calls) ==
    IF offset < Len(data)
    THEN LET r == Writer_write(w, SubSeq(data, offset + 1, Len(data)))
         IN  IF r.ok THEN write_all_from(r.w, data, offset + r.n, calls + 1)
             ELSE [ok |-> FALSE, w |-> r.w, calls |-> calls + 1]
    ELSE [ok |-> TRUE, w |-> w, calls |-> calls]

\* write_all that calls write once and does not look at how much it took
write_all_once(w, data) ==
    IF Len(data) = 0 THEN [ok |-> TRUE, w |-> w, calls |-> 0]
    ELSE LET r == Writer_write(w, data) IN
         [ok |-> r.ok, w |-> r.w, calls |-> 1]

write_all(w, data) == write_all_from(w, data, 0, 0)

(***************************************************************************)
(* DataSource for a borrowed slice &[u8]: {off, len} into the buffer src   *)
(***************************************************************************)
Slice(off, len) == [off |-> off, len |-> len]
SliceBytes(src, d) == SubSeq(src, d.off + 1, d.off + d.len)

\* split_at with the byte at `mid` lost between the two halves
split_at_skip(d, mid) ==
    <<Slice(d.off, mid), Slice(d.off + mid + 1, d.len - mid - 1)>>

\* <[u8]>::split_at
split_at(d, mid) == <<Slice(d.off, mid), Slice(d.off + mid, d.len - mid)>>

(***************************************************************************)
(* CommandBuilder (command.rs 138-369)                                     *)
(***************************************************************************)
\* CommandBuilder::new: extended length supported
CommandBuilder_new(class, instruction, p1, p2, data, le) ==
    [class |-> class, instruction |-> instruction, p1 |-> p1, p2 |-> p2,
     data |-> data, le |-> le, extended_length |-> "Supported"]

\* CommandBuilder::force_extended
force_extended(b) == [b EXCEPT !.extended_length = "Forced"]

\* the builder inside the iterator made by CommandBuilder::new_non_extended
new_non_extended_command(class, instruction, p1, p2, data, le) ==
    [class |-> class, instruction |-> instruction, p1 |-> p1, p2 |-> p2,
     data |-> data, le |-> Ne(le), extended_length |-> "Unsupported"]

\* matches!(expected_len, ExpectedLen::Ne(257..) | ExpectedLen::Max)
expected_is_extended(expected_len) ==
    expected_len.tag = "Max" \/ expected_len.len >= 257

\* serialize_data_len choosing the Lc form by the data length alone
serialize_data_len_by_len(len, expected_len, extended) ==
    IF len = 0 THEN [bytes |-> <<>>, lc_extended |-> FALSE]
    ELSE IF len <= U8_MAX /\ extended \in {"Unsupported", "Supported"}
         THEN [bytes |-> <<len>>, lc_extended |-> FALSE]
         ELSE [bytes |-> <<0>> \o ToBeBytes(len), lc_extended |-> TRUE]

\* serialize_data_len that treats Forced like Supported
serialize_data_len_unforced(len, expected_len, extended) ==
    IF len = 0 THEN [bytes |-> <<>>, lc_extended |-> FALSE]
    ELSE IF len <= U8_MAX /\ ~expected_is_extended(expected_len)
         THEN [bytes |-> <<len>>, lc_extended |-> FALSE]
         ELSE [bytes |-> <<0>> \o ToBeBytes(len), lc_extended |-> TRUE]

\* serialize_data_len that writes an extended Lc of zero for empty data
\* when extended length is forced
serialize_data_len_empty_extended(len, expected_len, extended) ==
    IF len = 0 /\ extended # "Forced"
    THEN [bytes |-> <<>>, lc_extended |-> FALSE]
    ELSE IF /\ len \in 1..U8_MAX
            /\ ~expected_is_extended(expected_len)
            /\ extended \in {"Unsupported", "Supported"}
         THEN [bytes |-> <<len>>, lc_extended |-> FALSE]
         ELSE [bytes |-> <<0>> \o ToBeBytes(len), lc_extended |-> TRUE]

\* header_data::serialize_data_len: the Lc field and whether it is extended
serialize_data_len(len, expected_len, extended) ==
    IF len = 0 THEN [bytes |-> <<>>, lc_extended |-> FALSE]
    ELSE IF /\ len <= U8_MAX
            /\ ~expected_is_extended(expected_len)
            /\ extended \in {"Unsupported", "Supported"}
         THEN [bytes |-> <<len>>, lc_extended |-> FALSE]
         ELSE [bytes |-> <<0>> \o ToBeBytes(len), lc_extended |-> TRUE]

\* serialize_expected_len without the leading zero of a lone extended Le
serialize_expected_len_no_zero(len, lc_extended, data_is_empty, extended) ==
    LET short_policy == extended \in {"Unsupported", "Supported"} IN
    CASE len.tag = "Ne" /\ len.len = 0 ->
            [ok |-> TRUE, bytes |-> <<>>]
      [] len.tag = "Ne" /\ len.len \in 1..U8_MAX /\ ~lc_extended /\ short_policy ->
            [ok |-> TRUE, bytes |-> <<len.len>>]
      [] len.tag = "Ne" /\ len.len = SHORT_LE_MAX /\ ~lc_extended /\ short_policy ->
            [ok |-> TRUE, bytes |-> <<0>>]
      [] len.tag = "Ne" -> [ok |-> TRUE, bytes |-> ToBeBytes(len.len)]
      [] OTHER -> [ok |-> TRUE, bytes |-> <<0, 0>>]

\* header_data::serialize_expected_len: the Le field; ok = FALSE is one of the
\* two unreachable!() arms
serialize_expected_len(len, lc_extended, data_is_empty, extended) ==
    LET short_policy == extended \in {"Unsupported", "Supported"} IN
    CASE len.tag = "Ne" /\ len.len = 0 ->
            [ok |-> TRUE, bytes |-> <<>>]
      [] len.tag = "Ne" /\ len.len \in 1..U8_MAX /\ ~lc_extended /\ short_policy ->
            [ok |-> TRUE, bytes |-> <<len.len>>]
      [] len.tag = "Ne" /\ len.len = SHORT_LE_MAX /\ ~lc_extended /\ short_policy ->
            [ok |-> TRUE, bytes |-> <<0>>]
      [] OTHER ->
            CASE len.tag = "Ne" /\ lc_extended /\ ~data_is_empty ->
                    [ok |-> TRUE, bytes |-> ToBeBytes(len.len)]
              [] len.tag = "Max" /\ lc_extended /\ ~data_is_empty ->
                    [ok |-> TRUE, bytes |-> <<0, 0>>]
              [] len.tag = "Ne" /\ ~lc_extended /\ data_is_empty ->
                    [ok |-> TRUE, bytes |-> <<0>> \o ToBeBytes(len.len)]
              [] len.tag = "Max" /\ ~lc_extended /\ data_is_empty ->
                    [ok |-> TRUE, bytes |-> <<0, 0, 0>>]
              [] OTHER ->
                    [ok |-> FALSE, bytes |-> <<>>]

\* header_data that leaves le as requested whatever the policy
header_data_unclamped(b) ==
    LET dl == serialize_data_len(b.data.len, b.le, b.extended_length)
        el == serialize_expected_len(b.le, dl.lc_extended, b.data.len = 0,
                                     b.extended_length)
    IN  [ok |-> el.ok, le |-> b.le, data_len |-> dl.bytes,
         expected_data_len |-> el.bytes]

\* CommandBuilder::header_data
header_data(b) ==
    LET le == IF b.extended_length = "Unsupported"
              THEN ExpectedLen_min(b.le, Ne(SHORT_LE_MAX))
              ELSE b.le
        dl == serialize_data_len(b.data.len, le, b.extended_length)
        el == serialize_expected_len(le, dl.lc_extended, b.data.len = 0,
                                     b.extended_length)
    IN  [ok |-> el.ok, le |-> le, data_len |-> dl.bytes,
         expected_data_len |-> el.bytes]

\* required_len that leaves out the Le field
required_len_no_le(b) ==
    LET hd == header_data(b) IN
    IF ~hd.ok THEN -1 ELSE HEADER_LEN + Len(hd.data_len) + b.data.len

\* CommandBuilder::required_len (-1: header_data panicked)
required_len(b) ==
    LET hd == header_data(b) IN
    IF ~hd.ok THEN -1
    ELSE HEADER_LEN + (Len(hd.data_len) + Len(hd.expected_data_len)) + b.data.len

\* CommandBuilder::serialize_into: header, Lc, payload, Le; the first write
\* the sink refuses ends it with that error
serialize_into(b, src, writer) ==
    LET hd == header_data(b) IN
    IF ~hd.ok THEN [tag |-> "Panic", w |-> writer]
    ELSE
    LET w1 == write_all(writer, <<b.class.cla, Instruction_into(b.instruction),
                                  b.p1, b.p2>>)
    IN  IF ~w1.ok THEN [tag |-> "Err", w |-> w1.w]
        ELSE
        LET w2 == write_all(w1.w, hd.data_len) IN
        IF ~w2.ok THEN [tag |-> "Err", w |-> w2.w]
        ELSE
        LET w3 == write_all(w2.w, SliceBytes(src, b.data)) IN
        IF ~w3.ok THEN [tag |-> "Err", w |-> w3.w]
        ELSE
        LET w4 == write_all(w3.w, hd.expected_data_len) IN
        IF ~w4.ok THEN [tag |-> "Err", w |-> w4.w]
        ELSE [tag |-> "Ok", w |-> w4.w]

\* CommandBuilder::serialize_to_vec
serialize_to_vec(b, src) == serialize_into(b, src, NewVec).w.buf

(***************************************************************************)
(* Decoding (command.rs 508-696)                                           *)
(***************************************************************************)
FromSliceError ==
    {"TooShort", "TooLong", "InvalidClass", "InvalidFirstBodyByteForExtended",
     "InvalidSliceLength"}

\* replace_zero that keeps a zero
replace_zero_never(value, replacement) == value

\* replace_zero
replace_zero(value, replacement) == IF value = 0 THEN replacement ELSE value

\* body[i] with i counted from 0 as in the source; Rust panics when i >= len
InBounds(body, i) == 0 <= i /\ i < Len(body)
At(body, i) == body[i + 1]

ParsedOk(lc, le, offset, extended) ==
    [tag |-> "Ok", err |-> "", lc |-> lc, le |-> le, offset |-> offset,
     extended |-> extended]
ParsedErr(e) ==
    [tag |-> "Err", err |-> e, lc |-> 0, le |-> 0, offset |-> 0,
     extended |-> FALSE]
ParsedPanic ==
    [tag |-> "Panic", err |-> "", lc |-> 0, le |-> 0, offset |-> 0,
     extended |-> FALSE]

\* the extended cases without the `l < 3` check
parse_lengths_extended_unchecked(body) ==
    LET l == Len(body)
        b1 == At(body, 0)
    IN  IF b1 # 0 THEN ParsedErr("InvalidFirstBodyByteForExtended")
        ELSE IF ~(InBounds(body, 1) /\ InBounds(body, 2)) THEN ParsedPanic
        ELSE IF l = 3 /\ b1 = 0
             THEN ParsedOk(0, replace_zero(FromBeBytes(At(body, 1), At(body, 2)),
                                           EXT_LE_MAX), 0, TRUE)
        ELSE LET lc == FromBeBytes(At(body, 1), At(body, 2)) IN
             IF l = 3 + lc THEN ParsedOk(lc, 0, 3, TRUE)
             ELSE IF l = 5 + lc
             THEN IF ~(InBounds(body, l - 2) /\ InBounds(body, l - 1))
                  THEN ParsedPanic
                  ELSE ParsedOk(lc,
                                replace_zero(FromBeBytes(At(body, l - 2),
                                                         At(body, l - 1)),
                                             EXT_LE_MAX),
                                3, TRUE)
             ELSE ParsedErr("InvalidSliceLength")

\* the extended cases with the length looked at before the first byte
parse_lengths_extended_len_first(body) ==
    LET l == Len(body)
        b1 == At(body, 0)
    IN  IF l < 3 THEN ParsedErr("InvalidSliceLength")
        ELSE IF b1 # 0 THEN ParsedErr("InvalidFirstBodyByteForExtended")
        ELSE IF l = 3
             THEN ParsedOk(0, replace_zero(FromBeBytes(At(body, 1), At(body, 2)),
                                           EXT_LE_MAX), 0, TRUE)
        ELSE LET lc == FromBeBytes(At(body, 1), At(body, 2)) IN
             IF l = 3 + lc THEN ParsedOk(lc, 0, 3, TRUE)
             ELSE IF l = 5 + lc
             THEN ParsedOk(lc,
                           replace_zero(FromBeBytes(At(body, l - 2),
                                                    At(body, l - 1)),
                                        EXT_LE_MAX),
                           3, TRUE)
             ELSE ParsedErr("InvalidSliceLength")

\* the extended cases with case 3E taken whenever the data fits, trailing
\* bytes or not
parse_lengths_extended_trailing(body) ==
    LET l == Len(body)
        b1 == At(body, 0)
    IN  IF b1 # 0 THEN ParsedErr("InvalidFirstBodyByteForExtended")
        ELSE IF l < 3 THEN ParsedErr("InvalidSliceLength")
        ELSE IF l = 3 /\ b1 = 0
             THEN ParsedOk(0, replace_zero(FromBeBytes(At(body, 1), At(body, 2)),
                                           EXT_LE_MAX), 0, TRUE)
        ELSE LET lc == FromBeBytes(At(body, 1), At(body, 2)) IN
             IF l = 5 + lc
             THEN ParsedOk(lc,
                           replace_zero(FromBeBytes(At(body, l - 2),
                                                    At(body, l - 1)),
                                        EXT_LE_MAX),
                           3, TRUE)
             ELSE IF l >= 3 + lc THEN ParsedOk(lc, 0, 3, TRUE)
             ELSE ParsedErr("InvalidSliceLength")

\* the extended cases of parse_lengths, after `parsed.extended = true`
parse_lengths_extended(body) ==
    LET l == Len(body)
        b1 == At(body, 0)
    IN  IF b1 # 0 THEN ParsedErr("InvalidFirstBodyByteForExtended")
        ELSE IF l < 3 THEN ParsedErr("InvalidSliceLength")
        ELSE IF ~(InBounds(body, 1) /\ InBounds(body, 2)) THEN ParsedPanic
        ELSE IF l = 3 /\ b1 = 0
             THEN \* Case 2E
                  ParsedOk(0, replace_zero(FromBeBytes(At(body, 1), At(body, 2)),
                                           EXT_LE_MAX), 0, TRUE)
        ELSE LET lc == FromBeBytes(At(body, 1), At(body, 2)) IN
             IF l = 3 + lc
             THEN \* Case 3E
                  ParsedOk(lc, 0, 3, TRUE)
             ELSE IF l = 5 + lc
             THEN \* Case 4E
                  IF ~(InBounds(body, l - 2) /\ InBounds(body, l - 1))
                  THEN ParsedPanic
                  ELSE ParsedOk(lc,
                                replace_zero(FromBeBytes(At(body, l - 2),
                                                         At(body, l - 1)),
                                             EXT_LE_MAX),
                                3, TRUE)
             ELSE ParsedErr("InvalidSliceLength")

\* parse_lengths: ISO 7816-3 12.1.3 cases 1, 2S, 3S, 4S, 2E, 3E, 4E
parse_lengths(body) ==
    LET l == Len(body) IN
    IF l = 0 THEN \* Case 1
                  ParsedOk(0, 0, 0, FALSE)
    ELSE IF ~InBounds(body, 0) THEN ParsedPanic
    ELSE LET b1 == At(body, 0) IN
         IF l = 1
         THEN \* Case 2S
              ParsedOk(0, replace_zero(b1, SHORT_LE_MAX), 0, FALSE)
         ELSE IF l = 1 + b1 /\ b1 # 0
         THEN \* Case 3S
              ParsedOk(b1, 0, 1, FALSE)
         ELSE IF l = 2 + b1 /\ b1 # 0
         THEN \* Case 4S
              IF ~InBounds(body, l - 1) THEN ParsedPanic
              ELSE ParsedOk(b1, replace_zero(At(body, l - 1), SHORT_LE_MAX),
                            1, FALSE)
         ELSE parse_lengths_extended(body)

ViewOk(class, instruction, p1, p2, data, le, extended) ==
    [tag |-> "Ok", err |-> "", class |-> class, instruction |-> instruction,
     p1 |-> p1, p2 |-> p2, data |-> data, le |-> le, extended |-> extended]
ViewFail(tag, e) ==
    [tag |-> tag, err |-> e, class |-> MkClass(0),
     instruction |-> Instruction_from(0), p1 |-> 0, p2 |-> 0, data |-> <<>>,
     le |-> 0, extended |-> FALSE]

\* TryFrom<&[u8]> for CommandView; data = &body[parsed.offset..][..parsed.lc]
\* panics when the slice bounds exceed the body
CommandView_try_from(apdu) ==
    IF Len(apdu) < 4 THEN ViewFail("Err", "TooShort")
    ELSE
    LET header == SubSeq(apdu, 1, 4)
        body == SubSeq(apdu, 5, Len(apdu))
        class == Class_try_from(header[1])
    IN  IF ~class.ok THEN ViewFail("Err", "InvalidClass")
        ELSE
        LET parsed == parse_lengths(body) IN
        IF parsed.tag = "Panic" THEN ViewFail("Panic", "")
        ELSE IF parsed.tag = "Err" THEN ViewFail("Err", parsed.err)
        ELSE IF parsed.offset > Len(body)
                \/ parsed.lc > Len(body) - parsed.offset
        THEN ViewFail("Panic", "")
        ELSE ViewOk([cla |-> class.cla, range |-> class.range],
                    Instruction_from(header[2]), header[3], header[4],
                    SubSeq(body, parsed.offset + 1, parsed.offset + parsed.lc),
                    parsed.le, parsed.extended)

(***************************************************************************)
(* Command<S>: the owned command (command.rs 13-96, 554-586)               *)
(***************************************************************************)
CommandOk(class, instruction, p1, p2, data, le, extended) ==
    [tag |-> "Ok", err |-> "", class |-> class, instruction |-> instruction,
     p1 |-> p1, p2 |-> p2, data |-> data, le |-> le, extended |-> extended]

\* to_owned whose storage refuses data of exactly S bytes
to_owned_strict(view, S) ==
    IF Len(view.data) >= S THEN ViewFail("Err", "TooLong")
    ELSE CommandOk(view.class, view.instruction, view.p1, view.p2, view.data,
                   view.le, view.extended)

\* CommandView::to_owned::<S>: Data::from_slice fails when data exceeds S
to_owned(view, S) ==
    IF Len(view.data) > S THEN ViewFail("Err", "TooLong")
    ELSE CommandOk(view.class, view.instruction, view.p1, view.p2, view.data,
                   view.le, view.extended)

\* TryFrom<&[u8]> for Command<S>
Command_try_from(apdu, S) ==
    LET view == CommandView_try_from(apdu) IN
    IF view.tag # "Ok" THEN view ELSE to_owned(view, S)

\* Command::as_view
as_view(command) == command

\* extend_from_command_view that keeps the accumulator's own header and le
extend_from_command_view_keep_header(self, command, S) ==
    IF Len(self.data) + Len(command.data) > S
    THEN [ok |-> FALSE, command |-> [self EXCEPT !.extended = TRUE]]
    ELSE [ok |-> TRUE,
          command |-> [self EXCEPT !.extended = TRUE,
                                   !.data = self.data \o command.data]]

\* Command::extend_from_command_view: the header, le and extended are taken
\* from the fragment first, then the data is appended; extend_from_slice
\* refuses (leaving the data alone) when the result would exceed S
extend_from_command_view(self, command, S) ==
    LET hdr == [self EXCEPT !.class = command.class,
                            !.instruction = command.instruction,
                            !.p1 = command.p1,
                            !.p2 = command.p2,
                            !.le = command.le,
                            !.extended = TRUE]
    IN  IF Len(self.data) + Len(command.data) > S
        THEN [ok |-> FALSE, command |-> hdr]
        ELSE [ok |-> TRUE,
              command |-> [hdr EXCEPT !.data = self.data \o command.data]]

(***************************************************************************)
(* PartialEq<CommandView> for CommandBuilder (command.rs 377-396)          *)
(***************************************************************************)
Builder_eq_View(b, src, view) ==
    /\ b.class = view.class
    /\ b.instruction = view.instruction
    /\ b.p1 = view.p1
    /\ b.p2 = view.p2
    /\ SliceBytes(src, b.data) = view.data
    /\ ExpectedLen_into_usize(b.le) = view.le

(***************************************************************************)
(* Command chaining (command.rs 398-484, 152-173)                          *)
(***************************************************************************)
NoBuilder ==
    [class |-> MkClass(0), instruction |-> Instruction_from(0), p1 |-> 0,
     p2 |-> 0, data |-> Slice(0, 0), le |-> Ne(0),
     extended_length |-> "Unsupported"]

\* the payload room should_split computes for available_len >= HEADER_LEN
\* available_data_len that forgets the Lc and Le fields
available_data_len_no_fields(b, available_len) ==
    Min(available_len - HEADER_LEN,
        IF b.extended_length = "Unsupported" THEN U8_MAX ELSE U16_MAX)

\* available_data_len that keeps one byte too many for the length fields
available_data_len_one_less(b, available_len) ==
    LET hd == header_data(b) IN
    Min(SaturatingSub(available_len - HEADER_LEN,
                      Len(hd.data_len) + Len(hd.expected_data_len) + 1),
        IF b.extended_length = "Unsupported" THEN U8_MAX ELSE U16_MAX)

\* available_data_len with a plain subtraction in place of saturating_sub
available_data_len_unsaturated(b, available_len) ==
    LET hd == header_data(b) IN
    Min(available_len - HEADER_LEN
            - (Len(hd.data_len) + Len(hd.expected_data_len)),
        IF b.extended_length = "Unsupported" THEN U8_MAX ELSE U16_MAX)

available_data_len(b, available_len) ==
    LET hd == header_data(b)
        max_data_len == IF b.extended_length = "Unsupported"
                        THEN U8_MAX ELSE U16_MAX
    IN  Min(SaturatingSub(available_len - HEADER_LEN,
                          Len(hd.data_len) + Len(hd.expected_data_len)),
            max_data_len)

\* CommandBuilder::should_split
should_split(b, available_len) ==
    IF available_len < HEADER_LEN
    THEN [tag |-> "Panic", now |-> NoBuilder, later |-> NoBuilder]
    ELSE
    LET hd == header_data(b)
        adl == available_data_len(b, available_len)
    IN  IF ~hd.ok
        THEN [tag |-> "Panic", now |-> NoBuilder, later |-> NoBuilder]
        ELSE IF adl >= b.data.len
        THEN [tag |-> "None", now |-> NoBuilder, later |-> NoBuilder]
        ELSE IF adl = 0
        THEN [tag |-> "Panic", now |-> NoBuilder, later |-> NoBuilder]
        ELSE LET parts == split_at(b.data, adl) IN
             [tag |-> "Some",
              now |-> [class |-> as_chained(b.class),
                       instruction |-> b.instruction,
                       p1 |-> b.p1, p2 |-> b.p2,
                       data |-> parts[1],
                       le |-> Ne(0),
                       extended_length |-> b.extended_length],
              later |-> [class |-> b.class,
                         instruction |-> b.instruction,
                         p1 |-> b.p1, p2 |-> b.p2,
                         data |-> parts[2],
                         le |-> hd.le,
                         extended_length |-> b.extended_length]]

(***************************************************************************)
(* Bounds of the model                                                     *)
(***************************************************************************)
\* payloads of 0..MaxSmallLen bytes are chained through buffers of
\* MinBuf..MaxSmallBuf bytes
MaxSmallLen == 7
MaxSmallBuf == 12
\* lengths within Window of the short/extended thresholds are tried
Window == 1
\* longest body fed byte by byte to the decoder
MaxBodyLen == 7
\* capacity S of a small owned Command<S>
SmallCap == 5
\* capacity S of the smallest owned Command<S> tried by the decoder
TinyCap == 1
\* a receiver folds up to MaxFragments fragments of 0..MaxFragLen bytes
MaxFragments == 3
MaxFragLen == 2
\* write_all is tried on sinks of 0..MaxSinkCap bytes, part of them taken,
\* with 0..MaxWriteLen bytes to write
MaxSinkCap == 4
MaxWriteLen == 6

MinBuf == HEADER_LEN - 1

(***************************************************************************)
(* Inputs                                                                  *)
(***************************************************************************)
Policies == {"Unsupported", "Supported", "Forced"}

\* CLA INS P1 P2: a plain class with a named instruction, a class that
\* already has the chaining bit, and the class as_chained() turns into 0xFF
Headers == {<<0, 164, 4, 12>>, <<144, 1, 2, 3>>, <<239, 219, 63, 255>>}

\* ExpectedLen values at the thresholds 0, 255/256/257 and u16::MAX
LeU16 ==
    {Ne(n) : n \in {0, 1, U8_MAX, SHORT_LE_MAX, SHORT_LE_MAX + 1, U16_MAX}}
LeVals(policy) == IF policy = "Unsupported" THEN LeU16 ELSE LeU16 \cup {Max}

SmallLens == 0..MaxSmallLen
SmallBufs == MinBuf..MaxSmallBuf
MidLens == ((U8_MAX + 1 - Window)..(U8_MAX + 1 + Window))
               \cup ((2 * U8_MAX + 1 - Window)..(2 * U8_MAX + 1))
MidBufs == (DEFAULT_BUFFER_LEN - Window)..(DEFAULT_BUFFER_LEN + Window)
BigLens == (U16_MAX + 1 - Window)..U16_MAX

\* the sender's payload: every byte value occurs, 0xFF and 0x00 early
Payload(n) == [i \in 1..n |-> (i + 253) % 256]

(***************************************************************************)
(* State                                                                   *)
(***************************************************************************)
VARIABLES
    src,            \* the sender's payload buffer the builders borrow from
    orig,           \* the logical command as built
    command,        \* Option<CommandBuilder>: what remains to be sent; for
                    \* one serialized command, the command nested as its data
                    \* (ChainedCommandIterator.command / the caller's rem)
    available_len,  \* ChainedCommandIterator.available_len (0: no iterator)
    bufs,           \* buffer lengths the caller may offer to should_split
    fixed_len,      \* -1: should_split not called yet, -2: called with
                    \* different lengths, n: every call so far used n
    split,          \* the last should_split call: receiver, argument, result
    cur,            \* the fragment to send next, and whether it is the last
    wire,           \* the sink the fragment was serialized into
    ser,            \* outcome of the last serialize_into
    rx,             \* outcome of the last decode / fold on the receiving side
    acc,            \* Option<Command<S>>: the receiver's accumulator
    S,              \* capacity of the accumulator's data
    canon,          \* the (lc, le) a canonical test body was built from
    parsed,         \* the ParsedLengths of the last decoded APDU's body
    pc

vars == <<src, orig, command, available_len, bufs, fixed_len, split, cur,
          wire, ser, rx, acc, S, canon, parsed, pc>>

None == [some |-> FALSE, b |-> NoBuilder]
Some(b) == [some |-> TRUE, b |-> b]

NoCommand == ViewFail("None", "")
NoSplit ==
    [self |-> NoBuilder, available_len |-> 0,
     res |-> [tag |-> "NotCalled", now |-> NoBuilder, later |-> NoBuilder]]
NoCur == [some |-> FALSE, b |-> NoBuilder, last |-> FALSE]
NoRx == [tag |-> "None", err |-> "", n |-> 0]
NoCanon == [some |-> FALSE, lc |-> 0, has_le |-> FALSE, le |-> 0, fill |-> 0]
NoParsed ==
    [tag |-> "None", err |-> "", lc |-> 0, le |-> 0, offset |-> 0,
     extended |-> FALSE]

\* the ParsedLengths that CommandView::try_from computes on its way
LengthsOf(apdu) ==
    IF Len(apdu) < 4 \/ ~Class_try_from(apdu[1]).ok THEN NoParsed
    ELSE parse_lengths(SubSeq(apdu, 5, Len(apdu)))

MkBuilder(hdr, n, le, policy) ==
    LET b == CommandBuilder_new(MkClass(hdr[1]), Instruction_from(hdr[2]),
                                hdr[3], hdr[4], Slice(0, n), le)
    IN  CASE policy = "Supported" -> b
          [] policy = "Forced" -> force_extended(b)
          [] OTHER -> new_non_extended_command(MkClass(hdr[1]),
                                               Instruction_from(hdr[2]),
                                               hdr[3], hdr[4], Slice(0, n),
                                               le.len)

(***************************************************************************)
(* Chaining: sender (should_split / ChainedCommandIterator), wire,         *)
(* receiver (Command::try_from, extend_from_command_view)                  *)
(***************************************************************************)
\* "big": the longest payloads, through an iterator with the default buffer
BigInit(hdr, policy, le, iter, cap) ==
    /\ hdr = <<0, 164, 4, 12>>
    /\ policy = "Unsupported"
    /\ le \in {Ne(0), Ne(U16_MAX)}
    /\ iter
    /\ cap = U16_MAX

ChainInit ==
    \E hdr \in Headers, policy \in Policies, scen \in {"small", "mid", "big"} :
    \E le \in LeVals(policy),
       n \in (CASE scen = "small" -> SmallLens
               [] scen = "mid" -> MidLens
               [] OTHER -> BigLens),
       iter \in (IF policy = "Unsupported" THEN BOOLEAN ELSE {FALSE}),
       cap \in {SmallCap, U16_MAX} :
    LET bs == CASE scen = "small" -> SmallBufs
                [] scen = "mid" -> MidBufs
                [] OTHER -> {} IN
    \E al \in (IF iter THEN bs \cup {DEFAULT_BUFFER_LEN} ELSE {0}) :
        /\ scen = "big" => BigInit(hdr, policy, le, iter, cap)
        /\ src = Payload(n)
        /\ orig = MkBuilder(hdr, n, le, policy)
        /\ command = Some(orig)
        /\ available_len = al
        /\ bufs = IF iter THEN {} ELSE bs
        /\ fixed_len = -1
        /\ split = NoSplit
        /\ cur = NoCur
        /\ wire = NewWriter(0)
        /\ ser = "None"
        /\ rx = NoRx
        /\ acc = NoCommand
        /\ S = cap
        /\ canon = NoCanon
        /\ parsed = NoParsed
        /\ pc = "split"

\* what one should_split call does to the sender's state
Offer(len) ==
    LET res == should_split(command.b, len) IN
    /\ split' = [self |-> command.b, available_len |-> len, res |-> res]
    /\ fixed_len' = IF fixed_len \in {-1, len} THEN len ELSE -2
    /\ CASE res.tag = "Some" ->
                /\ command' = Some(res.later)
                /\ cur' = [some |-> TRUE, b |-> res.now, last |-> FALSE]
                /\ pc' = "send"
         [] res.tag = "None" ->
                /\ command' = None
                /\ cur' = [some |-> TRUE, b |-> command.b, last |-> TRUE]
                /\ pc' = "send"
         [] OTHER ->
                /\ command' = command
                /\ cur' = NoCur
                /\ pc' = "panic"

\* ChainedCommandIterator::next: self.command.take(), then should_split on
\* what was taken; None once the last fragment has been yielded
IterNext ==
    /\ available_len # 0
    /\ IF command.some
       THEN /\ pc = "split"
            /\ Offer(available_len)
       ELSE /\ pc \in {"done", "exhausted"}
            /\ command' = None
            /\ cur' = NoCur
            /\ pc' = "exhausted"
            /\ UNCHANGED <<split, fixed_len>>
    /\ UNCHANGED <<src, orig, available_len, bufs, wire, ser, rx, acc, S, canon,
                   parsed>>

\* the caller applies should_split to the remainder with a buffer of its own
Split(len) ==
    /\ pc = "split"
    /\ available_len = 0
    /\ command.some
    /\ len \in bufs
    /\ Offer(len)
    /\ UNCHANGED <<src, orig, available_len, bufs, wire, ser, rx, acc, S, canon,
                   parsed>>

\* serialize_into a sink that holds as many bytes as were offered
Send ==
    /\ pc = "send"
    /\ LET r == serialize_into(cur.b, src, NewWriter(split.available_len)) IN
        /\ wire' = r.w
        /\ ser' = r.tag
        /\ pc' = CASE r.tag = "Ok" -> "recv"
                   [] r.tag = "Err" -> "error"
                   [] OTHER -> "panic"
    /\ UNCHANGED <<src, orig, command, available_len, bufs, fixed_len, split,
                   cur, rx, acc, S, canon, parsed>>

\* the receiver decodes the fragment: the first becomes the accumulator
\* (Command::try_from), each later one is folded into it
Recv ==
    /\ pc = "recv"
    /\ parsed' = LengthsOf(wire.buf)
    /\ IF acc.tag # "Ok"
       THEN LET c == Command_try_from(wire.buf, S) IN
            /\ acc' = c
            /\ rx' = [tag |-> c.tag, err |-> c.err, n |-> rx.n + 1]
            /\ pc' = IF c.tag # "Ok" THEN "error"
                     ELSE IF cur.last THEN "done" ELSE "split"
       ELSE LET view == CommandView_try_from(wire.buf) IN
            IF view.tag # "Ok"
            THEN /\ acc' = acc
                 /\ rx' = [tag |-> view.tag, err |-> view.err, n |-> rx.n + 1]
                 /\ pc' = "error"
            ELSE LET r == extend_from_command_view(acc, view, S) IN
                 /\ acc' = r.command
                 /\ rx' = [tag |-> IF r.ok THEN "Ok" ELSE "Err",
                           err |-> IF r.ok THEN "" ELSE "Capacity",
                           n |-> rx.n + 1]
                 /\ pc' = IF ~r.ok THEN "error"
                          ELSE IF cur.last THEN "done" ELSE "split"
    /\ UNCHANGED <<src, orig, command, available_len, bufs, fixed_len, split,
                   cur, wire, ser, S, canon>>

ChainNext ==
    \/ IterNext
    \/ \E len \in SmallBufs \cup MidBufs : Split(len)
    \/ Send
    \/ Recv

ChainSpec == ChainInit /\ [][ChainNext]_vars

(***************************************************************************)
(* Encoding and decoding one command: serialize_to_vec, then               *)
(* Command::try_from                                                       *)
(***************************************************************************)
CodecLens ==
    (0..(Window + 1)) \cup ((U8_MAX + 1 - Window)..(U8_MAX + 1 + Window))
        \cup BigLens

\* a command used as the data of another one (DataSource for
\* CommandBuilder): its length is required_len(), its bytes are what
\* serialize_into writes
InnerLens == {0, 6, U8_MAX - 6}
InnerHeaders == {<<0, 1, 1, 2>>, <<128, 203, 255, 0>>}
InnerBuilders ==
    {MkBuilder(hdr, k, le, policy) :
        hdr \in InnerHeaders, k \in InnerLens, le \in {Ne(0), Ne(16), Max},
        policy \in {"Supported", "Forced"}}
NestedSources ==
    {[len |-> required_len(inner),
      bytes |-> serialize_to_vec(inner, Payload(inner.data.len)),
      inner |-> Some(inner)] :
        inner \in InnerBuilders}

\* the data of a builder: a slice of n bytes, or a nested command; a builder
\* without extended length only leaves its iterator with a payload of at
\* most 255 bytes
CodecSources(policy) ==
    LET all == {[len |-> n, bytes |-> Payload(n), inner |-> None] :
                    n \in CodecLens}
                   \cup NestedSources
    IN  IF policy = "Unsupported" THEN {d \in all : d.len <= U8_MAX} ELSE all

CodecInit ==
    \E hdr \in Headers, policy \in Policies :
    \E le \in LeVals(policy), d \in CodecSources(policy) :
    LET n == d.len IN
        /\ src = d.bytes
        /\ orig = MkBuilder(hdr, n, le, policy)
        /\ command = d.inner
        /\ available_len = 0
        /\ bufs = {}
        /\ fixed_len = -1
        /\ split = NoSplit
        /\ cur = [some |-> TRUE, b |-> orig, last |-> TRUE]
        /\ wire = NewVec
        /\ ser = "None"
        /\ rx = NoRx
        /\ acc = NoCommand
        /\ S = U16_MAX
        /\ canon = NoCanon
        /\ parsed = NoParsed
        /\ pc = "send"

\* CommandBuilder::serialize_to_vec
SerializeToVec ==
    /\ pc = "send"
    /\ LET r == serialize_into(cur.b, src, NewVec) IN
        /\ wire' = r.w
        /\ ser' = r.tag
        /\ pc' = CASE r.tag = "Ok" -> "recv"
                   [] r.tag = "Err" -> "error"
                   [] OTHER -> "panic"
    /\ UNCHANGED <<src, orig, command, available_len, bufs, fixed_len, split,
                   cur, rx, acc, S, canon, parsed>>

CodecNext == SerializeToVec \/ Recv

CodecSpec == CodecInit /\ [][CodecNext]_vars

(***************************************************************************)
(* Serializing into a sink of fixed capacity (&mut [u8], heapless::Vec)    *)
(***************************************************************************)
\* the room of the sinks tried: none, the header alone, and around what the
\* command needs
Rooms(b) ==
    {0, HEADER_LEN}
        \cup {r \in (required_len(b) - Window)..(required_len(b) + Window) :
                r >= 0}

\* CommandBuilder::serialize_into a sink with `room` bytes left
SerializeInto(room) ==
    /\ pc = "send"
    /\ room \in Rooms(cur.b)
    /\ LET r == serialize_into(cur.b, src, NewWriter(room)) IN
        /\ wire' = r.w
        /\ ser' = r.tag
        /\ pc' = CASE r.tag = "Ok" -> "recv"
                   [] r.tag = "Err" -> "error"
                   [] OTHER -> "panic"
    /\ UNCHANGED <<src, orig, command, available_len, bufs, fixed_len, split,
                   cur, rx, acc, S, canon, parsed>>

SinkNext ==
    \/ \E room \in Rooms(cur.b) : SerializeInto(room)
    \/ Recv

SinkSpec == CodecInit /\ [][SinkNext]_vars

(***************************************************************************)
(* Decoding untrusted bytes: Command::<S>::try_from on any byte string,    *)
(* and on the canonical bodies of test::lengths / tests::parse_apdu        *)
(***************************************************************************)
\* the bytes tried at each position of a fed APDU (positions from 1)
FeedBytes(pos) ==
    CASE pos = 1 -> {0, INVALID_CLA}
      [] pos = 2 -> {164}
      [] pos = 3 -> {2}
      [] pos = 4 -> {3}
      [] OTHER -> {0, 1, U8_MAX}

CanonLe == {0, 1, U8_MAX, SHORT_LE_MAX, U16_MAX}

\* test::lengths: extended = lc > 255 || le.map(|val| val > 255)
CanonExtended(lc, has_le, le) == lc > U8_MAX \/ (has_le /\ le > U8_MAX)

\* test::lengths: the body built from (lc, le), with lc bytes of `fill`
CanonBody(lc, has_le, le, fill) ==
    LET extended == CanonExtended(lc, has_le, le)
        lcf == IF lc > 0
               THEN (IF extended THEN <<0>> \o ToBeBytes(lc) ELSE <<lc>>)
               ELSE <<>>
        lef == IF has_le
               THEN (IF extended
                     THEN (IF lc = 0 THEN <<0>> ELSE <<>>) \o ToBeBytes(le)
                     ELSE <<le>>)
               ELSE <<>>
    IN  lcf \o [i \in 1..lc |-> fill] \o lef

DecodeInit ==
    \E cap \in {TinyCap, SmallCap, U16_MAX} :
        /\ src = <<>>
        /\ orig = NoBuilder
        /\ command = None
        /\ available_len = 0
        /\ bufs = {}
        /\ fixed_len = -1
        /\ split = NoSplit
        /\ cur = NoCur
        /\ wire = NewVec
        /\ ser = "None"
        /\ rx = NoRx
        /\ acc = NoCommand
        /\ S = cap
        /\ canon = NoCanon
        /\ parsed = NoParsed
        /\ pc = "input"

\* one more byte arrives
Feed(b) ==
    /\ pc = "input"
    /\ ~canon.some
    /\ Len(wire.buf) < HEADER_LEN + MaxBodyLen
    /\ b \in FeedBytes(Len(wire.buf) + 1)
    /\ wire' = [wire EXCEPT !.buf = Append(wire.buf, b)]
    /\ UNCHANGED <<src, orig, command, available_len, bufs, fixed_len, split,
                   cur, ser, rx, acc, S, canon, parsed, pc>>

\* a canonically encoded APDU arrives whole
LoadCanonical(hdr, lc, has_le, le, fill) ==
    /\ pc = "input"
    /\ ~canon.some
    /\ wire.buf = <<>>
    /\ has_le \/ le = 0
    /\ wire' = [wire EXCEPT !.buf = hdr \o CanonBody(lc, has_le, le, fill)]
    /\ canon' = [some |-> TRUE, lc |-> lc, has_le |-> has_le, le |-> le,
                 fill |-> fill]
    /\ UNCHANGED <<src, orig, command, available_len, bufs, fixed_len, split,
                   cur, ser, rx, acc, S, parsed, pc>>

\* Command::<S>::try_from: CommandView::try_from (rx), then to_owned (acc)
Decode ==
    /\ pc = "input"
    /\ LET view == CommandView_try_from(wire.buf) IN
        /\ rx' = [tag |-> view.tag, err |-> view.err, n |-> rx.n + 1]
        /\ acc' = Command_try_from(wire.buf, S)
    /\ parsed' = LengthsOf(wire.buf)
    /\ pc' = "done"
    /\ UNCHANGED <<src, orig, command, available_len, bufs, fixed_len, split,
                   cur, wire, ser, S, canon>>

DecodeNext ==
    \/ \E b \in Byte : Feed(b)
    \/ \E hdr \in Headers, lc \in CodecLens, has_le \in BOOLEAN,
          le \in CanonLe, fill \in {0, U8_MAX} :
            LoadCanonical(hdr, lc, has_le, le, fill)
    \/ Decode

DecodeSpec == DecodeInit /\ [][DecodeNext]_vars

(***************************************************************************)
(* Reassembly: a receiver folds whatever fragments arrive, one after the   *)
(* other, into one Command<S>                                              *)
(***************************************************************************)
\* the Le of an arriving fragment: none, 00 (256), 01, 01 01 (257)
FragLe == {<<FALSE, 0>>, <<TRUE, 0>>, <<TRUE, 1>>, <<TRUE, SHORT_LE_MAX + 1>>}

\* the bytes the n-th arriving fragment is filled with
FragFill(n) == 10 + n

FoldInit ==
    \E cap \in {SmallCap, U16_MAX} :
        /\ src = <<>>
        /\ orig = NoBuilder
        /\ command = None
        /\ available_len = 0
        /\ bufs = {}
        /\ fixed_len = -1
        /\ split = NoSplit
        /\ cur = NoCur
        /\ wire = NewVec
        /\ ser = "None"
        /\ rx = NoRx
        /\ acc = NoCommand
        /\ S = cap
        /\ canon = NoCanon
        /\ parsed = NoParsed
        /\ pc = "split"

\* a fragment arrives, with any header and lengths, whatever came before
Arrive(hdr, lc, le) ==
    /\ pc = "split"
    /\ rx.n < MaxFragments
    /\ wire' = [wire EXCEPT
                   !.buf = hdr \o CanonBody(lc, le[1], le[2], FragFill(rx.n))]
    /\ canon' = [some |-> TRUE, lc |-> lc, has_le |-> le[1], le |-> le[2],
                 fill |-> FragFill(rx.n)]
    /\ pc' = "recv"
    /\ UNCHANGED <<src, orig, command, available_len, bufs, fixed_len, split,
                   cur, ser, rx, acc, S, parsed>>

FoldNext ==
    \/ \E hdr \in Headers, lc \in 0..MaxFragLen, le \in FragLe :
            Arrive(hdr, lc, le)
    \/ Recv

FoldSpec == FoldInit /\ [][FoldNext]_vars

(***************************************************************************)
(* Class bytes: Class::try_from on any byte, the getters of the Class, and *)
(* as_chained() once and again                                             *)
(***************************************************************************)
ClassInit ==
    \E cla \in Byte :
        /\ src = <<cla>>
        /\ orig = NoBuilder
        /\ command = None
        /\ available_len = 0
        /\ bufs = {}
        /\ fixed_len = -1
        /\ split = NoSplit
        /\ cur = NoCur
        /\ wire = NewVec
        /\ ser = "None"
        /\ rx = NoRx
        /\ acc = NoCommand
        /\ S = U16_MAX
        /\ canon = NoCanon
        /\ parsed = NoParsed
        /\ pc = "byte"

\* Class::try_from / Class::from_byte on the byte in src
ClassTryFrom ==
    /\ pc = "byte"
    /\ LET c == Class_try_from(src[1])
       IN  IF c.ok
           THEN /\ orig' = [NoBuilder EXCEPT
                               !.class = [cla |-> c.cla, range |-> c.range]]
                /\ cur' = [some |-> TRUE, b |-> orig', last |-> FALSE]
                /\ rx' = rx
                /\ pc' = "class"
           ELSE /\ rx' = [NoRx EXCEPT !.tag = "Err", !.err = c.range]
                /\ UNCHANGED <<orig, cur>>
                /\ pc' = "invalid"
    /\ UNCHANGED <<src, command, available_len, bufs, fixed_len, split,
                   wire, ser, acc, S, canon, parsed>>

\* Class::as_chained on the class as it is now
AsChained ==
    /\ pc \in {"class", "chained"}
    /\ cur' = [cur EXCEPT !.b.class = as_chained(cur.b.class)]
    /\ pc' = IF pc = "class" THEN "chained" ELSE "rechained"
    /\ UNCHANGED <<src, orig, command, available_len, bufs, fixed_len, split,
                   wire, ser, rx, acc, S, canon, parsed>>

\* Class::into_inner, written as the first byte of an APDU
IntoInner ==
    /\ pc \in {"class", "chained", "rechained"}
    /\ wire.buf = <<>>
    /\ wire' = [wire EXCEPT !.buf = <<cur.b.class.cla>>]
    /\ UNCHANGED <<src, orig, command, available_len, bufs, fixed_len, split,
                   cur, ser, rx, acc, S, canon, parsed, pc>>

ClassNext == ClassTryFrom \/ AsChained \/ IntoInner

ClassSpec == ClassInit /\ [][ClassNext]_vars

(***************************************************************************)
(* Instruction bytes: Instruction::from on any byte, then u8::from         *)
(***************************************************************************)
InsInit ==
    \E ins \in Byte :
        /\ src = <<ins>>
        /\ orig = NoBuilder
        /\ command = None
        /\ available_len = 0
        /\ bufs = {}
        /\ fixed_len = -1
        /\ split = NoSplit
        /\ cur = NoCur
        /\ wire = NewVec
        /\ ser = "None"
        /\ rx = NoRx
        /\ acc = NoCommand
        /\ S = U16_MAX
        /\ canon = NoCanon
        /\ parsed = NoParsed
        /\ pc = "byte"

\* Instruction::from on the byte in src
InstructionFrom ==
    /\ pc = "byte"
    /\ orig' = [NoBuilder EXCEPT !.instruction = Instruction_from(src[1])]
    /\ cur' = [some |-> TRUE, b |-> orig', last |-> FALSE]
    /\ pc' = "instruction"
    /\ UNCHANGED <<src, command, available_len, bufs, fixed_len, split,
                   wire, ser, rx, acc, S, canon, parsed>>

\* u8::from on the Instruction, written as the second byte of an APDU
InstructionInto ==
    /\ pc = "instruction"
    /\ wire' = [wire EXCEPT !.buf = <<Instruction_into(cur.b.instruction)>>]
    /\ pc' = "done"
    /\ UNCHANGED <<src, orig, command, available_len, bufs, fixed_len, split,
                   cur, ser, rx, acc, S, canon, parsed>>

InsNext == InstructionFrom \/ InstructionInto

InsSpec == InsInit /\ [][InsNext]_vars

(***************************************************************************)
(* Writer::write_all on a fixed-capacity sink (heapless::Vec, &mut [u8])   *)
(* that already holds some bytes, then write_all of an empty slice         *)
(***************************************************************************)
\* the bytes a sink holds before write_all
Prefill(n) == [i \in 1..n |-> 170]

WriterInit ==
    \E capacity \in 0..MaxSinkCap, n \in 0..MaxWriteLen :
    \E taken \in 0..capacity :
        /\ src = Payload(n)
        /\ orig = NoBuilder
        /\ command = None
        /\ available_len = capacity - taken
        /\ bufs = {}
        /\ fixed_len = -1
        /\ split = NoSplit
        /\ cur = NoCur
        /\ wire = [NewWriter(capacity) EXCEPT !.buf = Prefill(taken)]
        /\ ser = "None"
        /\ rx = NoRx
        /\ acc = NoCommand
        /\ S = U16_MAX
        /\ canon = NoCanon
        /\ parsed = NoParsed
        /\ pc = "write"

\* sink.write_all(data); rx.n counts the write() calls it made
WriteAll ==
    /\ pc = "write"
    /\ LET r == write_all(wire, src) IN
        /\ wire' = r.w
        /\ ser' = IF r.ok THEN "Ok" ELSE "Err"
        /\ rx' = [rx EXCEPT !.n = r.calls]
    /\ pc' = "written"
    /\ UNCHANGED <<src, orig, command, available_len, bufs, fixed_len, split,
                   cur, acc, S, canon, parsed>>

\* sink.write_all(&[]) on the sink as write_all left it
WriteEmpty ==
    /\ pc = "written"
    /\ LET r == write_all(wire, <<>>) IN
        /\ wire' = r.w
        /\ rx' = [rx EXCEPT !.tag = IF r.ok THEN "Ok" ELSE "Err",
                            !.err = IF r.ok THEN "" ELSE "BufferFull",
                            !.n = rx.n + r.calls]
    /\ pc' = "done"
    /\ UNCHANGED <<src, orig, command, available_len, bufs, fixed_len, split,
                   cur, ser, acc, S, canon, parsed>>

WriterNext == WriteAll \/ WriteEmpty

WriterSpec == WriterInit /\ [][WriterNext]_vars

(***************************************************************************)
(* Claims about should_split                                               *)
(***************************************************************************)
SplitSome == split.res.tag = "Some"
SplitNone == split.res.tag = "None"
SplitPanic == split.res.tag = "Panic"

\* the le a builder asks for, as a number: Ne(n) is n, Max is 65536
LeValue(e) == IF e.tag = "Max" THEN EXT_LE_MAX ELSE e.len

\* C7: when should_split(available_len) returns None, the command fits:
\* required_len() <= available_len.
C7_NoneMeansFits ==
    SplitNone => required_len(split.self) <= split.available_len

\* C8: when should_split returns Some((send_now, send_later)), send_now has
\* the class byte with bit 4 set and otherwise the receiver's header and
\* policy, le = 0, a non-empty payload, and fits: required_len() <=
\* available_len.
C8_SendNow ==
    SplitSome =>
        LET now == split.res.now
            self == split.self
        IN  /\ (now.class.cla \div 16) % 2 = 1
            /\ now.class.cla \in {self.class.cla, self.class.cla + 16}
            /\ now.class.range = self.class.range
            /\ now.instruction = self.instruction
            /\ now.p1 = self.p1
            /\ now.p2 = self.p2
            /\ now.extended_length = self.extended_length
            /\ now.le = Ne(0)
            /\ now.data.len >= 1
            /\ required_len(now) >= HEADER_LEN
            /\ required_len(now) <= split.available_len

\* C8 witness: a split of a command that asks for an extended Le, out of a
\* class without the chaining bit
C8_Witness ==
    /\ SplitSome
    /\ pc = "send"
    /\ split.self.class.cla = 0
    /\ split.self.le = Ne(SHORT_LE_MAX + 1)
    /\ split.self.extended_length = "Supported"
    /\ split.res.now.data.len >= 2

\* the parts of C9 that do not involve le
C9_Parts ==
    LET now == split.res.now
        later == split.res.later
        self == split.self
    IN  /\ later.class = self.class
        /\ later.instruction = self.instruction
        /\ later.p1 = self.p1
        /\ later.p2 = self.p2
        /\ now.data.len >= 1
        /\ later.data.len >= 1
        /\ SliceBytes(src, now.data) \o SliceBytes(src, later.data)
               = SliceBytes(src, self.data)

\* C9 as stated: send_later keeps the header and the original le of the
\* builder it was split from, both parts are non-empty and send_now.data
\* followed by send_later.data is the original data.
C9_Original ==
    SplitSome => (C9_Parts /\ split.res.later.le = split.self.le)

\* C9 as amended: send_later keeps the header, and the le of the builder it
\* was split from clamped to 256 when extended length is unsupported (the
\* original le otherwise); both parts are non-empty and send_now.data
\* followed by send_later.data is the original data.
C9_SendLater ==
    SplitSome =>
        /\ C9_Parts
        /\ split.res.later.le =
               IF split.self.extended_length = "Unsupported"
                  /\ split.self.le.len > SHORT_LE_MAX
               THEN Ne(SHORT_LE_MAX)
               ELSE split.self.le

\* C9 witness: a second split, of a remainder whose le was clamped
C9_Witness ==
    /\ SplitSome
    /\ split.self.extended_length = "Unsupported"
    /\ orig.le = Ne(U16_MAX)
    /\ split.self.data.off > 0
    /\ split.res.later.le = Ne(SHORT_LE_MAX)
    /\ split.res.later.data.len >= 2

\* C10 as stated: with a fixed available_len >= 9 should_split never panics.
C10_Original ==
    fixed_len >= 9 => ~SplitPanic

\* header, 3-byte Lc, 2-byte Le and one byte of payload
MinSafeBuf == HEADER_LEN + 3 + 2 + 1

\* a should_split call with the one length used so far, that length >= 10
FixedStep == fixed_len' >= MinSafeBuf /\ split' # split

\* C10 as amended: with a fixed available_len >= 10 (9 is not enough), for
\* any data length, le and policy, should_split never panics, and every call
\* either returns None, which ends the chain, or leaves a remainder that is
\* not empty and strictly shorter than the payload it was applied to; so a
\* payload of n bytes is sent in at most max(1, n) fragments.
C10_Terminates ==
    /\ [](fixed_len >= MinSafeBuf =>
            /\ ~SplitPanic
            /\ rx.n <= (IF Len(src) = 0 THEN 1 ELSE Len(src)))
    /\ [][FixedStep =>
            /\ split'.self = command.b
            /\ split'.res.tag \in {"Some", "None"}
            /\ split'.res.tag = "Some" =>
                   /\ command'.some
                   /\ command'.b.data.len < command.b.data.len
                   /\ command'.b.data.len >= 1
            /\ split'.res.tag = "None" => ~command'.some]_vars

\* C10 witness: a chain of at least three splits with one buffer length of
\* at least 10 bytes came to its end
C10_Witness ==
    /\ fixed_len >= MinSafeBuf
    /\ SplitNone
    /\ ~command.some
    /\ rx.n >= 2
    /\ orig.extended_length = "Supported"
    /\ pc = "done"

(***************************************************************************)
(* Claims about the chained round trip                                     *)
(***************************************************************************)
\* the le the receiver must end up with: min(le, 256) without extended length
ExpectedLe(b) ==
    IF b.extended_length = "Unsupported" THEN Min(LeValue(b.le), SHORT_LE_MAX)
    ELSE LeValue(b.le)

\* the accumulator holds the logical command
AccIsOrig ==
    /\ acc.tag = "Ok"
    /\ acc.class.cla = orig.class.cla
    /\ acc.class = orig.class
    /\ Instruction_into(acc.instruction) = Instruction_into(orig.instruction)
    /\ acc.instruction = orig.instruction
    /\ acc.p1 = orig.p1
    /\ acc.p2 = orig.p2
    /\ acc.data = src
    /\ acc.le = ExpectedLe(orig)

\* C2: for every class other than 0xEF, any payload, any le and any buffer
\* sizes that do not make should_split panic, splitting, serializing,
\* decoding and folding every fragment goes through and ends with an
\* accumulator equal to the logical command (le = min(le, 256) without
\* extended length).  S is taken large enough for the payload.
C2_ChainRoundTrip ==
    (orig.class.cla # 239 /\ S >= Len(src) /\ ~SplitPanic) =>
        /\ pc \notin {"error", "panic"}
        /\ pc = "done" => AccIsOrig

\* the same, for the chains whose fragments the sinks accepted
ChainRoundTripWhenSerialized ==
    (orig.class.cla # 239 /\ S >= Len(src) /\ ~SplitPanic /\ ser # "Err") =>
        /\ pc \notin {"error", "panic"}
        /\ pc = "done" => AccIsOrig

ChainRoundTripReached ==
    /\ pc = "done"
    /\ rx.n >= 3
    /\ fixed_len = -2
    /\ AccIsOrig
    /\ orig.le = Ne(U16_MAX)

(***************************************************************************)
(* Claims about encoding and decoding one command                          *)
(***************************************************************************)
Serialized == pc \in {"recv", "done"}

\* C1: for every valid class, instruction, p1, p2, payload and le in
\* 0..65535, serializing CommandBuilder::new(..) (extended length supported)
\* and decoding the bytes succeeds and gives the same class, instruction,
\* p1, p2, the same data bytes and expected() = le; with le = 0 no Le field
\* is emitted.
C1_RoundTrip ==
    (orig.extended_length = "Supported" /\ orig.le.tag = "Ne") =>
        /\ pc \notin {"error", "panic"}
        /\ Serialized => ser = "Ok"
        /\ (Serialized /\ orig.le.len = 0) =>
               Len(wire.buf) = HEADER_LEN + Len(src)
                   + (IF Len(src) = 0 THEN 0
                      ELSE IF Len(src) <= U8_MAX THEN 1 ELSE 3)
        /\ pc = "done" =>
               /\ rx.tag = "Ok"
               /\ AccIsOrig
               /\ acc.le = orig.le.len

\* C1 witness: the largest payload with the largest le went round
C1_Witness ==
    /\ pc = "done"
    /\ orig.extended_length = "Supported"
    /\ Len(src) = U16_MAX
    /\ orig.le = Ne(U16_MAX)
    /\ acc.tag = "Ok"
    /\ acc.data = src
    /\ acc.le = U16_MAX

\* C6: short and extended length fields are never mixed in a serialized
\* command: the bytes are header, Lc field, data, Le field; an Lc field is
\* 1 byte or 00 hi lo; when both fields are there they are 1 + 1 bytes or
\* 3 + 2 bytes; a 3-byte Le (00 hi lo) is there only without data; with
\* extended length supported, le >= 257 and 1..255 data bytes give a 3-byte
\* Lc.  Serializing never reaches an unreachable!() arm.
C6_NeverMixed ==
    /\ pc # "panic"
    /\ Serialized =>
        LET hd == header_data(cur.b)
            lc == hd.data_len
            le == hd.expected_data_len
            b == cur.b
        IN  /\ wire.buf = <<b.class.cla, Instruction_into(b.instruction),
                            b.p1, b.p2>> \o lc \o src \o le
            /\ Len(lc) \in {0, 1, 3}
            /\ Len(lc) = 0 <=> Len(src) = 0
            /\ Len(lc) = 3 => lc[1] = 0
            /\ Len(le) \in 0..3
            /\ Len(le) = 3 => (le[1] = 0 /\ Len(src) = 0)
            /\ (Len(lc) > 0 /\ Len(le) > 0) =>
                   <<Len(lc), Len(le)>> \in {<<1, 1>>, <<3, 2>>}
            /\ (/\ b.extended_length = "Supported"
                /\ LeValue(b.le) >= SHORT_LE_MAX + 1
                /\ Len(src) \in 1..U8_MAX) => Len(lc) = 3

\* C6 witness: one data byte and le = 257 serialized as 00 00 01, the byte,
\* 01 01
C6_Witness ==
    /\ pc = "done"
    /\ orig.extended_length = "Supported"
    /\ orig.le = Ne(SHORT_LE_MAX + 1)
    /\ Len(src) = 1
    /\ SubSeq(wire.buf, HEADER_LEN + 1, Len(wire.buf))
           = <<0, 0, 1>> \o src \o <<1, 1>>

(***************************************************************************)
(* Claims about decoding untrusted bytes                                   *)
(***************************************************************************)
\* C3: decoding never panics: for every byte sequence CommandView::try_from,
\* parse_lengths and Command::<S>::try_from return Ok or one of the five
\* FromSliceError values; no index is out of bounds.
C3_NoPanic ==
    /\ rx.tag # "Panic" /\ acc.tag # "Panic" /\ parsed.tag # "Panic"
    /\ rx.tag = "Err" => rx.err \in FromSliceError
    /\ acc.tag = "Err" => acc.err \in FromSliceError
    /\ parsed.tag = "Err" => parsed.err \in FromSliceError
    /\ pc = "done" => (rx.tag \in {"Ok", "Err"} /\ acc.tag \in {"Ok", "Err"})

\* C3 witness: an extended Lc that announces more data than is there was
\* turned down
C3_Witness ==
    /\ pc = "done"
    /\ ~canon.some
    /\ Len(wire.buf) = HEADER_LEN + 4
    /\ wire.buf[HEADER_LEN + 1] = 0
    /\ wire.buf[HEADER_LEN + 3] = U8_MAX
    /\ rx.tag = "Err"
    /\ rx.err = "InvalidSliceLength"

\* C4: a canonically encoded APDU (Lc field absent, 1 byte or 00 + 2 bytes;
\* lc data bytes; Le field absent, 1 byte or 2 bytes with a leading 00 when
\* lc = 0; extended meaning lc > 255 or le > 255) parses to that lc and
\* data, offset 0 / 1 / 3, that extended flag and le, where an absent Le is
\* 0, a zero short Le is 256 and a zero extended Le is 65536; the header
\* bytes come back unchanged.
C4_Canonical ==
    (canon.some /\ pc = "done") =>
        LET ext == CanonExtended(canon.lc, canon.has_le, canon.le)
            ne == IF ~canon.has_le THEN 0
                  ELSE IF canon.le # 0 THEN canon.le
                  ELSE IF ext THEN EXT_LE_MAX ELSE SHORT_LE_MAX
            offset == IF canon.lc = 0 THEN 0 ELSE IF ext THEN 3 ELSE 1
        IN  /\ parsed = ParsedOk(canon.lc, ne, offset, ext)
            /\ rx.tag = "Ok"
            /\ S < canon.lc => (acc.tag = "Err" /\ acc.err = "TooLong")
            /\ S >= canon.lc =>
                   /\ acc.tag = "Ok"
                   /\ acc.class.cla = wire.buf[1]
                   /\ Instruction_into(acc.instruction) = wire.buf[2]
                   /\ acc.p1 = wire.buf[3]
                   /\ acc.p2 = wire.buf[4]
                   /\ acc.data = [i \in 1..canon.lc |-> canon.fill]
                   /\ acc.le = ne
                   /\ acc.extended = ext

\* C4 witness: an extended body with a zero Le was decoded
C4_Witness ==
    /\ canon.some
    /\ pc = "done"
    /\ canon.lc = U8_MAX + 1
    /\ canon.has_le
    /\ canon.le = 0
    /\ parsed.le = EXT_LE_MAX
    /\ acc.tag = "Ok"
    /\ Len(acc.data) = U8_MAX + 1

\* the outcome C5 gives to an input
Classify(a) ==
    LET l == Len(a) - HEADER_LEN IN
    IF Len(a) < HEADER_LEN THEN "TooShort"
    ELSE IF a[1] = INVALID_CLA THEN "InvalidClass"
    ELSE IF l < 2 THEN "Ok"
    ELSE LET b1 == a[HEADER_LEN + 1] IN
         IF b1 # 0
         THEN (IF l \notin {1 + b1, 2 + b1}
               THEN "InvalidFirstBodyByteForExtended" ELSE "Ok")
         ELSE IF l = 2 THEN "InvalidSliceLength"
         ELSE IF l >= 4
                 /\ LET Lc == a[HEADER_LEN + 2] * (U8_MAX + 1) + a[HEADER_LEN + 3]
                    IN  l \notin {3 + Lc, 5 + Lc}
              THEN "InvalidSliceLength"
              ELSE "Ok"

\* C5: an input shorter than 4 bytes gives TooShort; otherwise a first byte
\* 0xFF gives InvalidClass; otherwise, with l the body length and b1 its
\* first byte, l >= 2, b1 # 0 and l not in {1 + b1, 2 + b1} gives
\* InvalidFirstBodyByteForExtended; b1 = 0 and l = 2, or b1 = 0, l >= 4 and
\* l not in {3 + Lc, 5 + Lc}, gives InvalidSliceLength; every other input
\* decodes successfully.
C5_Classification ==
    pc = "done" =>
        LET c == Classify(wire.buf) IN
        IF c = "Ok" THEN rx.tag = "Ok"
        ELSE rx.tag = "Err" /\ rx.err = c

\* C5 witness: a body of four bytes whose first byte fits no short case
C5_Witness ==
    /\ pc = "done"
    /\ ~canon.some
    /\ Len(wire.buf) = HEADER_LEN + 4
    /\ wire.buf[HEADER_LEN + 1] = 1
    /\ rx.tag = "Err"
    /\ rx.err = "InvalidFirstBodyByteForExtended"

(***************************************************************************)
(* Claims about unusable buffers                                           *)
(***************************************************************************)
SplitCalled == split.res.tag # "NotCalled"

\* the payload room of C11: available_len - 4 - Lc field - Le field, not
\* below 0, capped at 255 or 65535
Room(b, len) ==
    LET hd == header_data(b)
        fields == Len(hd.data_len) + Len(hd.expected_data_len)
        left == len - HEADER_LEN - fields
        cap == IF b.extended_length = "Unsupported" THEN U8_MAX ELSE U16_MAX
    IN  IF left <= 0 THEN 0 ELSE IF left > cap THEN cap ELSE left

\* C11 as stated: should_split panics whenever available_len < 4 and
\* whenever the payload room is 0.
C11_Original ==
    (SplitCalled /\ (split.available_len < HEADER_LEN
                     \/ Room(split.self, split.available_len) = 0))
        => SplitPanic

\* C11 as amended: should_split panics exactly when available_len < 4, or
\* when the payload room is 0 and the payload is not empty; it never returns
\* in those two cases.  With an empty payload and available_len >= 4 it
\* returns None whatever the room is.
C11_Panics ==
    SplitCalled =>
        LET self == split.self
            len == split.available_len
            room == Room(self, len)
        IN  /\ SplitPanic <=>
                   (len < HEADER_LEN \/ (room = 0 /\ self.data.len > 0))
            /\ (len >= HEADER_LEN /\ self.data.len = 0) => SplitNone
            /\ SplitPanic => (pc = "panic" /\ ~cur.some)

\* C11 witness: a panic for want of payload room in a buffer that holds the
\* header and both length fields
C11_Witness ==
    /\ SplitPanic
    /\ split.available_len = HEADER_LEN + 2
    /\ split.self.extended_length = "Unsupported"
    /\ split.self.data.len > 0
    /\ Room(split.self, split.available_len) = 0

(***************************************************************************)
(* Claims about the ChainedCommandIterator                                 *)
(***************************************************************************)
IsIterator == available_len # 0

\* next() yields a fragment
IterYield == IsIterator /\ split' # split /\ cur'.some

\* where the payload of the fragment yielded before ended
Yielded == IF cur.some THEN cur.b.data.off + cur.b.data.len ELSE 0

\* C12: unless should_split panics, the iterator of new_non_extended yields
\* the fragments in payload order, each once: every fragment starts where
\* the one before ended; a fragment that is not the last has the chaining
\* bit in its class byte, le = 0 and leaves the rest of the payload in the
\* iterator; the last one ends the payload, has the original class and the
\* original le clamped to 256, and empties the iterator; empty data gives
\* one fragment; after the last fragment next() returns None and yields
\* nothing more.
C12_Iterator ==
    /\ [][IterYield =>
            /\ cur'.b.data.off = Yielded
            /\ cur'.b.instruction = orig.instruction
            /\ cur'.b.p1 = orig.p1 /\ cur'.b.p2 = orig.p2
            /\ cur'.b.extended_length = "Unsupported"
            /\ ~cur'.last =>
                   /\ HasBit4(cur'.b.class.cla)
                   /\ cur'.b.class.cla \in {orig.class.cla,
                                            orig.class.cla + CHAIN_BIT}
                   /\ cur'.b.le = Ne(0)
                   /\ cur'.b.data.len >= 1
                   /\ command'.some
                   /\ command'.b.data.off = Yielded + cur'.b.data.len
                   /\ command'.b.data.off + command'.b.data.len = Len(src)
            /\ cur'.last =>
                   /\ cur'.b.class = orig.class
                   /\ ExpectedLe(cur'.b) = ExpectedLe(orig)
                   /\ cur'.b.data.off + cur'.b.data.len = Len(src)
                   /\ ~command'.some
            /\ Len(src) = 0 => (cur'.last /\ ~cur.some /\ cur'.b = orig)]_vars
    /\ [][(IsIterator /\ ~command.some /\ pc \in {"done", "exhausted"})
             => (~command'.some /\ (cur' # cur => ~cur'.some)
                 /\ split' = split /\ rx' = rx)]_vars
    /\ [](pc = "exhausted" => (~cur.some /\ ~command.some /\ SplitNone))

\* C12 witness: an iterator that yielded at least three fragments of a
\* command with an le above 256 is asked again
C12_Witness ==
    /\ IsIterator
    /\ pc = "exhausted"
    /\ rx.n >= 3
    /\ orig.le = Ne(U16_MAX)
    /\ acc.data = src

\* a fragment was decoded by the receiver
Decoded == rx.n >= 1 /\ pc \in {"split", "done", "exhausted"}

\* what C13 says of a yielded fragment, but for its size on the wire
C13_Short ==
    (IsIterator /\ cur.some) =>
        LET hd == header_data(cur.b) IN
        /\ cur.b.data.len <= U8_MAX
        /\ Len(hd.data_len) <= 1
        /\ Len(hd.expected_data_len) <= 1
        /\ (Decoded /\ pc # "exhausted") =>
               (parsed.tag = "Ok" /\ ~parsed.extended
                /\ parsed.lc = cur.b.data.len)

\* C13: without extended length every fragment the iterator of
\* new_non_extended yields is a short APDU: at most 255 bytes of payload,
\* Lc and Le fields of at most one byte, a serialization no longer than the
\* iterator's buffer, decoded with extended = false, for every payload and
\* every buffer length that does not make should_split panic.
C13_ShortFragments ==
    /\ C13_Short
    /\ (IsIterator /\ cur.some) => required_len(cur.b) <= available_len

\* the same with the size on the wire asked only of fragments with a
\* payload, or when the Le field fits next to the header
C13_ShortWhenLeFits ==
    /\ C13_Short
    /\ (IsIterator /\ cur.some
        /\ (cur.b.data.len > 0
            \/ available_len >= HEADER_LEN
                   + Len(header_data(cur.b).expected_data_len)))
           => required_len(cur.b) <= available_len

C13_ShortReached ==
    /\ IsIterator
    /\ pc = "done"
    /\ Len(src) = U16_MAX
    /\ rx.n > U8_MAX + 2
    /\ cur.b.data.len \in 1..U8_MAX
    /\ ~parsed.extended

(***************************************************************************)
(* Claims about reassembly                                                 *)
(***************************************************************************)
\* the fragment in `wire`, as it was built
CanonData == [i \in 1..canon.lc |-> canon.fill]
CanonNe ==
    IF ~canon.has_le THEN 0
    ELSE IF canon.le # 0 THEN canon.le
    ELSE IF CanonExtended(canon.lc, canon.has_le, canon.le)
         THEN EXT_LE_MAX ELSE SHORT_LE_MAX

\* a fragment is folded into an accumulator that exists
Folding == pc = "recv" /\ acc.tag = "Ok" /\ pc' # pc

\* C14: each successful fold appends the fragment's data to the
\* accumulator's and takes class, instruction, p1, p2 and le from the
\* fragment, so that after f1..fn the data is that of the first fragment
\* followed by f1..fn in arrival order and the header and le are those of
\* fn; extended is true after any fold; a fold succeeds whenever the data
\* fits, whatever the headers, chain bits and extended flags of the
\* fragments are.
C14_Fold ==
    /\ [][(Folding /\ pc' = "split") =>
            /\ acc'.tag = "Ok"
            /\ acc'.data = acc.data \o CanonData
            /\ acc'.class.cla = wire.buf[1]
            /\ Instruction_into(acc'.instruction) = wire.buf[2]
            /\ acc'.p1 = wire.buf[3]
            /\ acc'.p2 = wire.buf[4]
            /\ acc'.le = CanonNe
            /\ acc'.extended]_vars
    /\ [][Folding => (pc' = "split" <=> Len(acc.data) + canon.lc <= S)]_vars
    /\ [][(pc = "recv" /\ acc.tag # "Ok" /\ pc' # pc) =>
            (pc' = "split" => acc'.data = CanonData)]_vars
    /\ []((acc.tag = "Ok" /\ rx.n >= 2) => acc.extended)
    /\ []((acc.tag = "Ok" /\ pc = "split") =>
            \A i, j \in 1..Len(acc.data) : i <= j => acc.data[i] <= acc.data[j])

\* C14 witness: three fragments folded, an empty one between two full ones,
\* the last with the chaining bit and a short Le, the first without
C14_Witness ==
    /\ pc = "split"
    /\ rx.n = 3
    /\ acc.tag = "Ok"
    /\ acc.data = <<FragFill(0), FragFill(0), FragFill(2), FragFill(2)>>
    /\ acc.class.cla = 144
    /\ acc.le = 1
    /\ acc.extended
    /\ ~parsed.extended

(***************************************************************************)
(* Claims about the builder's policies                                     *)
(***************************************************************************)
\* C15: without extended length the final fragment's Le field encodes
\* min(le, 256): nothing for 0, one byte for 1..255, the single byte 00 for
\* any le >= 256; and the fragment's bytes are those of CommandBuilder::new
\* with the same header and data and le = min(le, 256).
C15_Clamped ==
    (cur.some /\ cur.last /\ cur.b.extended_length = "Unsupported") =>
        LET m == Min(orig.le.len, SHORT_LE_MAX)
            twin == CommandBuilder_new(cur.b.class, cur.b.instruction,
                                       cur.b.p1, cur.b.p2, cur.b.data, Ne(m))
            bytes == serialize_to_vec(cur.b, src)
            n == cur.b.data.len
            tail == HEADER_LEN + (IF n = 0 THEN 0 ELSE 1) + n
        IN  /\ bytes = serialize_to_vec(twin, src)
            /\ n <= U8_MAX
            /\ SubSeq(bytes, tail + 1, Len(bytes)) =
                   (IF m = 0 THEN <<>>
                    ELSE IF m = SHORT_LE_MAX THEN <<0>> ELSE <<m>>)
            /\ (pc = "recv" /\ ser = "Ok") => wire.buf = bytes
            /\ pc = "done" => (parsed.tag = "Ok" /\ parsed.le = m)

\* C15 witness: the last fragment of a split command that asked for 65535
\* bytes went out with the Le byte 00
C15_Witness ==
    /\ pc = "done"
    /\ cur.last
    /\ cur.b.extended_length = "Unsupported"
    /\ orig.le = Ne(U16_MAX)
    /\ cur.b.data.off > 0
    /\ wire.buf[Len(wire.buf)] = 0
    /\ parsed.le = SHORT_LE_MAX

\* the length fields and data of the serialized command
WireBody == SubSeq(wire.buf, HEADER_LEN + 1, Len(wire.buf))

\* the 16 bits of an le: Max is sent as 00 00
LeBytes(e) == ToBeBytes(LeValue(e) % EXT_LE_MAX)

\* what C16 says of the bytes of a forced builder, and of the data and le
\* they decode to
C16_Bytes ==
    LET n == Len(src) IN
    /\ pc \notin {"error", "panic"}
    /\ Serialized =>
        WireBody = (IF n = 0 THEN <<>> ELSE <<0>> \o ToBeBytes(n) \o src)
                   \o (IF LeValue(orig.le) = 0 THEN <<>>
                       ELSE (IF n = 0 THEN <<0>> ELSE <<>>) \o LeBytes(orig.le))
    /\ pc = "done" =>
        (acc.tag = "Ok" /\ acc.data = src /\ acc.le = LeValue(orig.le))

\* C16 as stated: a builder on which force_extended() was called serializes
\* in extended form for every data length and le, the entirely empty
\* command included, and the APDU decodes with extended = true.
C16_Original ==
    orig.extended_length = "Forced" =>
        /\ C16_Bytes
        /\ pc = "done" => acc.extended

\* C16 as amended: a forced builder gives non-empty data a 3-byte Lc
\* (00 hi lo) and a non-zero le a 2-byte Le after data or a 3-byte Le
\* (00 hi lo) without data, and the APDU decodes with extended = true;
\* the entirely empty command (no data, le = 0) has no length field to
\* extend: it is the four header bytes and decodes with extended = false.
C16_Forced ==
    orig.extended_length = "Forced" =>
        /\ C16_Bytes
        /\ pc = "done" =>
               (acc.extended <=> (Len(src) > 0 \/ LeValue(orig.le) # 0))
        /\ (Serialized /\ Len(src) = 0 /\ LeValue(orig.le) = 0) =>
               Len(wire.buf) = HEADER_LEN

\* C16 witness: one byte of data and le = 1, forced: 00 00 01, the byte,
\* 00 01
C16_Witness ==
    /\ pc = "done"
    /\ orig.extended_length = "Forced"
    /\ Len(src) = 1
    /\ orig.le = Ne(1)
    /\ WireBody = <<0, 0, 1>> \o src \o <<0, 1>>
    /\ acc.extended

(***************************************************************************)
(* Claims about the size of a serialized command                           *)
(***************************************************************************)
\* C17: required_len() is the number of bytes serialize_into writes to an
\* unbounded sink, for every policy, le and data, a nested builder
\* included: 4 header bytes + Lc field + data + Le field, written in the
\* order CLA, INS, P1, P2, Lc, data, Le.
C17_RequiredLen ==
    (Serialized /\ wire.growable) =>
        LET b == cur.b
            hd == header_data(b)
        IN  /\ ser = "Ok"
            /\ Len(wire.buf) = required_len(b)
            /\ required_len(b) = HEADER_LEN + Len(hd.data_len) + Len(src)
                                    + Len(hd.expected_data_len)
            /\ SubSeq(wire.buf, 1, HEADER_LEN)
                   = <<b.class.cla, Instruction_into(b.instruction), b.p1, b.p2>>
            /\ SubSeq(wire.buf, HEADER_LEN + 1, HEADER_LEN + Len(hd.data_len))
                   = hd.data_len
            /\ SubSeq(wire.buf, HEADER_LEN + Len(hd.data_len) + 1,
                      HEADER_LEN + Len(hd.data_len) + Len(src)) = src
            /\ SubSeq(wire.buf, HEADER_LEN + Len(hd.data_len) + Len(src) + 1,
                      Len(wire.buf)) = hd.expected_data_len

\* C17 witness: the nested commands of test::nested_commands, the inner one
\* of 12 bytes
C17_Witness ==
    /\ pc = "done"
    /\ wire.growable
    /\ src = <<0, 1, 1, 2, 6>> \o Payload(6) \o <<16>>
    /\ orig.le = Ne(1)
    /\ orig.extended_length = "Supported"
    /\ Len(wire.buf) = HEADER_LEN + 1 + 12 + 1
    /\ required_len(orig) = HEADER_LEN + 1 + 12 + 1

\* C18: serialize_into a sink of fixed capacity returns Ok exactly when the
\* sink's room is at least required_len(), and then the sink holds the whole
\* APDU; with less room it returns the sink's BufferFull error, never Ok
\* for a truncated APDU.
C18_SinkErrors ==
    (ser # "None" /\ ~wire.growable) =>
        /\ ser \in {"Ok", "Err"}
        /\ ser = "Ok" <=> wire.capacity >= required_len(cur.b)
        /\ ser = "Ok" =>
               (wire.buf = serialize_to_vec(cur.b, src) /\ pc # "error")
        /\ ser = "Err" =>
               (pc = "error" /\ Len(wire.buf) <= wire.capacity
                /\ acc.tag = "None")

\* C18 witness: a sink one byte too small for a command of 256 bytes of
\* data was filled and refused the rest
C18_Witness ==
    /\ ser = "Err"
    /\ pc = "error"
    /\ ~wire.growable
    /\ Len(src) = U8_MAX + 1
    /\ wire.capacity = required_len(cur.b) - 1
    /\ Len(wire.buf) = wire.capacity

(***************************************************************************)
(* Claims about the equality of builders and views                         *)
(***************************************************************************)
\* C19: for every builder made by CommandBuilder::new, with any le,
\* ExpectedLen::Max included, forced or not, the view parsed from its
\* serialization compares equal to the builder (class, instruction, p1, p2,
\* data and le compared, the policy ignored).
C19_Symmetry ==
    (orig.extended_length \in {"Supported", "Forced"} /\ pc = "done") =>
        (rx.tag = "Ok" /\ Builder_eq_View(orig, src, as_view(acc)))

\* the same for the le that are numbers
C19_SymmetryNe ==
    (orig.extended_length \in {"Supported", "Forced"} /\ pc = "done"
     /\ orig.le.tag = "Ne") =>
        (rx.tag = "Ok" /\ Builder_eq_View(orig, src, as_view(acc)))

\* with ExpectedLen::Max the two differ by le alone: 65535 in the builder,
\* 65536 in the view
C19_MaxDiffers ==
    (orig.extended_length \in {"Supported", "Forced"} /\ pc = "done"
     /\ orig.le = Max) =>
        /\ ~Builder_eq_View(orig, src, as_view(acc))
        /\ Builder_eq_View([orig EXCEPT !.le = Ne(U16_MAX)], src,
                           [as_view(acc) EXCEPT !.le = U16_MAX])
        /\ acc.le = EXT_LE_MAX
        /\ ExpectedLen_into_usize(orig.le) = U16_MAX

(***************************************************************************)
(* Claims about the chaining bit of a class                                *)
(***************************************************************************)
\* as_chained() applied twice is as_chained() applied once
C20_Idempotent ==
    /\ pc = "chained" => cur.b.class = as_chained(orig.class)
    /\ pc = "rechained" => cur.b.class = as_chained(orig.class)

\* C20: for every valid Class c, c.as_chained().as_chained() =
\* c.as_chained(), and c.as_chained() never has the class byte 0xFF: every
\* Class reachable through try_from and as_chained is one try_from accepts.
C20_AsChained ==
    /\ C20_Idempotent
    /\ cur.b.class.cla # INVALID_CLA
    /\ Class_try_from(cur.b.class.cla).ok
    /\ Len(wire.buf) = 1 => wire.buf[1] # INVALID_CLA

\* 0xEF is the one class as_chained() turns into 0xFF
C20_OnlyEF ==
    (pc \in {"chained", "rechained"} /\ orig.class.cla # 239) =>
        /\ cur.b.class.cla # INVALID_CLA
        /\ cur.b.class = MkClass(cur.b.class.cla)
        /\ HasBit4(cur.b.class.cla)

(***************************************************************************)
(* Claims about class bytes                                                *)
(***************************************************************************)
\* the range the top bits of a class byte name
RangeOfBits(b) ==
    CASE b < 32 -> "First"
      [] b < 64 -> "Reserved"
      [] b < 128 -> "Further"
      [] OTHER -> "Proprietary"

\* C21: Class::try_from / from_byte return InvalidClass for 0xFF and for no
\* other byte; for each of the other 255 bytes the Class holds the byte
\* (into_inner returns it) and its range is First for 000x xxxx, Reserved
\* for 001x xxxx, Further for 01xx xxxx and Proprietary for 1xxx xxxx.
C21_Class ==
    pc # "byte" =>
        /\ (pc = "invalid") <=> (src[1] = INVALID_CLA)
        /\ pc = "invalid" => (rx.tag = "Err" /\ rx.err = "InvalidClass")
        /\ pc # "invalid" =>
              /\ orig.class.cla = src[1]
              /\ orig.class.range = RangeOfBits(src[1])
        /\ (pc = "class" /\ Len(wire.buf) = 1) => wire.buf[1] = src[1]

C21_Witness == pc = "invalid" /\ src = <<INVALID_CLA>> /\ rx.tag = "Err"

\* a Further Interindustry class was built and into_inner has returned
C21_Accepted ==
    pc = "class" /\ orig.class.range = "Further" /\ wire.buf = src

\* C30: for every class byte 01xx xxxx, secure_messaging() is None when bit
\* 0x20 of the byte is clear and Standard when it is set.
C30_Further ==
    (pc = "class" /\ cur.b.class.range = "Further") =>
        secure_messaging(cur.b.class) =
            IF (cur.b.class.cla \div 32) % 2 = 0 THEN "None" ELSE "Standard"

\* what the code does: every Further Interindustry class reads as Standard
C30_AlwaysStandard ==
    (pc = "class" /\ cur.b.class.range = "Further") =>
        secure_messaging(cur.b.class) = "Standard"

\* secure_messaging() of a Further class is never one of the other values
C30_NeverOther ==
    (pc = "class" /\ cur.b.class.range = "Further") =>
        secure_messaging(cur.b.class) \in {"None", "Standard"}

(***************************************************************************)
(* Claims about instruction bytes                                          *)
(***************************************************************************)
\* the eleven instruction bytes that have a name
NamedInstructions ==
    { <<32, "Verify">>, <<36, "ChangeReferenceData">>,
      <<44, "ResetRetryCounter">>, <<71, "GenerateAsymmetricKeyPair">>,
      <<135, "GeneralAuthenticate">>, <<164, "Select">>,
      <<192, "GetResponse">>, <<203, "GetData">>, <<219, "PutData">>,
      <<176, "ReadBinary">>, <<208, "WriteBinary">> }

\* C22: for every byte b, u8::from(Instruction::from(b)) = b; the eleven
\* named bytes give their named variant and every other byte Unknown(b).
C22_Invertible ==
    /\ pc \in {"instruction", "done"} =>
          /\ \A n \in NamedInstructions :
                (src[1] = n[1]) <=> (cur.b.instruction.variant = n[2])
          /\ (\A n \in NamedInstructions : src[1] # n[1]) =>
                /\ cur.b.instruction.variant = "Unknown"
                /\ cur.b.instruction.byte = src[1]
    /\ pc = "done" => wire.buf = src

C22_Witness ==
    pc = "done" /\ cur.b.instruction.variant = "PutData" /\ wire.buf = <<219>>

\* a byte without a name went through Unknown(b) and back
C22_Unknown ==
    pc = "done" /\ cur.b.instruction.variant = "Unknown" /\ wire.buf = <<0>>

(***************************************************************************)
(* Claims about the owned command                                          *)
(***************************************************************************)
\* C23: for a byte string that decodes to a view, Command::<S>::try_from
\* (CommandView::to_owned::<S>) returns TooLong exactly when the view's data
\* is longer than S; otherwise the Command has the view's class,
\* instruction, p1, p2, data, le and extended flag, and its as_view() is the
\* view. A byte string that does not decode never gives TooLong.
C23_Owned ==
    pc = "done" =>
        LET view == CommandView_try_from(wire.buf) IN
        /\ view.tag = "Ok" =>
              /\ (acc.tag = "Err" /\ acc.err = "TooLong")
                    <=> (Len(view.data) > S)
              /\ Len(view.data) <= S =>
                    /\ acc.tag = "Ok"
                    /\ acc.class = view.class
                    /\ acc.instruction = view.instruction
                    /\ acc.p1 = view.p1
                    /\ acc.p2 = view.p2
                    /\ acc.data = view.data
                    /\ acc.le = view.le
                    /\ acc.extended = view.extended
                    /\ as_view(acc) = view
        /\ view.tag # "Ok" => (acc.tag # "Ok" /\ acc.err # "TooLong")

\* data one byte longer than S was refused
C23_Witness ==
    /\ pc = "done"
    /\ rx.tag = "Ok"
    /\ acc.err = "TooLong"
    /\ parsed.lc = S + 1

\* data of exactly S bytes was stored
C23_Full ==
    pc = "done" /\ acc.tag = "Ok" /\ Len(acc.data) = S /\ S = TinyCap

(***************************************************************************)
(* Claims about the length-field encoder                                   *)
(***************************************************************************)
\* header_data of builder b reaches neither unreachable!() arm
HeaderDataOk(b) == header_data(b).ok /\ required_len(b) >= HEADER_LEN

\* C25: header_data computes the Lc and Le fields of every builder it is
\* called on (the command offered to should_split, both parts of a split,
\* every fragment that is serialized) without reaching an unreachable!()
\* arm, and does so for the same payload under each policy and each le;
\* serialize_into never panics, and should_split panics only for want of
\* room.
C25_NoUnreachable ==
    /\ HeaderDataOk(orig)
    /\ cur.some => HeaderDataOk(cur.b)
    /\ SplitCalled => HeaderDataOk(split.self)
    /\ SplitSome => (HeaderDataOk(split.res.now) /\ HeaderDataOk(split.res.later))
    /\ SplitPanic =>
          \/ split.available_len < HEADER_LEN
          \/ Room(split.self, split.available_len) = 0
    /\ ser # "Panic"
    /\ \A policy \in Policies, le \in LeU16 \cup {Max} :
          HeaderDataOk([orig EXCEPT !.le = le, !.extended_length = policy])

\* a command without extended-length support, more than 255 bytes of data
\* and le above 256 was split and a fragment of it serialized
C25_Witness ==
    /\ SplitSome
    /\ split.self.extended_length = "Unsupported"
    /\ split.self.data.len > U8_MAX
    /\ split.self.le.len > SHORT_LE_MAX
    /\ ser = "Ok"

\* forced extended length with empty data and a non-zero le was serialized
C25_ForcedEmpty ==
    /\ cur.some
    /\ cur.b.extended_length = "Forced"
    /\ cur.b.data.len = 0
    /\ cur.b.le # Ne(0)
    /\ ser = "Ok"

(***************************************************************************)
(* Claims about Writer::write_all                                          *)
(***************************************************************************)
\* C26: write_all on a fixed-capacity sink returns after at most two write()
\* calls: when the room left is at least data.len() it returns Ok and the
\* sink holds what it held followed by exactly data; otherwise it returns
\* BufferFull and the sink is filled to capacity with what it held followed
\* by a prefix of data.  write_all of an empty slice then returns Ok, makes
\* no write() call and leaves the sink alone, also when the sink is full.
C26_WriteAll ==
    pc \in {"written", "done"} =>
        LET room == available_len
            held == Prefill(wire.capacity - room)
        IN  /\ room >= Len(src) =>
                  /\ ser = "Ok"
                  /\ wire.buf = held \o src
                  /\ rx.n = IF Len(src) = 0 THEN 0 ELSE 1
            /\ room < Len(src) =>
                  /\ ser = "Err"
                  /\ wire.buf = held \o SubSeq(src, 1, room)
                  /\ Len(wire.buf) = wire.capacity
                  /\ rx.n = IF room = 0 THEN 1 ELSE 2
            /\ pc = "done" => rx.tag = "Ok"

\* the sink took a non-empty proper prefix of data and refused the rest
C26_Witness ==
    /\ pc = "written"
    /\ ser = "Err"
    /\ available_len > 0
    /\ Len(wire.buf) = wire.capacity
    /\ rx.n = 2

\* write_all of an empty slice on a sink that is full
C26_EmptyOnFull ==
    pc = "done" /\ Len(wire.buf) = wire.capacity /\ rx.tag = "Ok"

(***************************************************************************)
(* Claims about a fold that fails                                          *)
(***************************************************************************)
\* this step is extend_from_command_view returning Err(())
FoldFails == pc = "recv" /\ acc.tag = "Ok" /\ rx'.err = "Capacity"

\* C27: when extend_from_command_view returns Err because the accumulated
\* data plus the fragment's data would exceed S, the accumulator's class,
\* instruction, p1, p2, le, extended flag and data are what they were
\* before the call.
C27_Unchanged == [][FoldFails => acc' = acc]_vars

\* what the code does on Err: the data is what it was, while the header and
\* le are the refused fragment's and the extended flag is set
C27_DataKept ==
    [][FoldFails =>
          LET view == CommandView_try_from(wire.buf) IN
          /\ Len(acc.data) + Len(view.data) > S
          /\ acc'.data = acc.data
          /\ acc'.class = view.class
          /\ acc'.instruction = view.instruction
          /\ acc'.p1 = view.p1
          /\ acc'.p2 = view.p2
          /\ acc'.le = view.le
          /\ acc'.extended]_vars

(***************************************************************************)
(* Claims about every decoded view                                         *)
(***************************************************************************)
\* C28: a view decoded from an APDU has at most 65535 bytes of data and le
\* at most 65536, and when it is not extended at most 255 bytes of data and
\* le at most 256; the header, the Lc field, the data and the Le field
\* fill the input with no byte left over, the data being the input bytes
\* right after the Lc field; and le is 0 exactly when no byte is left for
\* an Le field.
C28_ViewInvariant ==
    (pc = "done" /\ rx.tag = "Ok") =>
        LET view == CommandView_try_from(wire.buf)
            lc_size == parsed.offset
            le_size == Len(wire.buf) - HEADER_LEN - lc_size - Len(view.data)
        IN  /\ Len(view.data) <= U16_MAX
            /\ view.le \in 0..EXT_LE_MAX
            /\ ~view.extended =>
                  /\ Len(view.data) <= U8_MAX
                  /\ view.le <= SHORT_LE_MAX
                  /\ lc_size = (IF Len(view.data) = 0 THEN 0 ELSE 1)
                  /\ le_size \in {0, 1}
            /\ view.extended =>
                  /\ lc_size \in {0, 3}
                  /\ lc_size = 0 => (Len(view.data) = 0 /\ le_size = 3)
                  /\ lc_size = 3 => le_size \in {0, 2}
            /\ (view.le = 0) <=> (le_size = 0)
            /\ view.data = SubSeq(wire.buf, HEADER_LEN + lc_size + 1,
                                  HEADER_LEN + lc_size + Len(view.data))

\* the longest data with the largest le: 65535 bytes and Le = 00 00
C28_Longest ==
    /\ pc = "done"
    /\ rx.tag = "Ok"
    /\ parsed.lc = U16_MAX
    /\ parsed.le = EXT_LE_MAX
    /\ Len(wire.buf) = HEADER_LEN + 3 + U16_MAX + 2

\* an extended Lc of zero followed by a 2-byte Le was decoded
C28_Witness ==
    /\ pc = "done"
    /\ rx.tag = "Ok"
    /\ parsed.extended
    /\ parsed.lc = 0
    /\ parsed.offset = 3

(***************************************************************************)
(* Claims about decoding as a one-to-one mapping                           *)
(***************************************************************************)
\* every byte string made of the APDU's header, some Lc field for n bytes,
\* the view's data and some Le field for le: the only candidates for a view
\* with that header, data and le
Encodings(apdu, view) ==
    LET n == Len(view.data)
        LcFields == {<<>>, <<n % 256>>, <<0>> \o ToBeBytes(n)}
        LeFields == {<<>>, <<view.le % 256>>, ToBeBytes(view.le % EXT_LE_MAX),
                     <<0>> \o ToBeBytes(view.le % EXT_LE_MAX)}
    IN  {SubSeq(apdu, 1, HEADER_LEN) \o lcf \o view.data \o lef :
            lcf \in LcFields, lef \in LeFields}

\* the byte strings other than apdu that decode to the view apdu decodes to
Twins(apdu) ==
    LET view == CommandView_try_from(apdu) IN
    {e \in Encodings(apdu, view) : e # apdu /\ CommandView_try_from(e) = view}

\* C29: no byte string other than the decoded APDU decodes to the same view
\* (class, instruction, p1, p2, data, le, extended); in particular the body
\* 00 00 00 hi lo and the body 00 hi lo do not give the same view.
C29_Injective ==
    (pc = "done" /\ rx.tag = "Ok") => Twins(wire.buf) = {}

\* what the code does: a view has a second encoding exactly when it is
\* extended with no data and a non-zero le, and then the two encodings are
\* the bodies 00 hi lo (case 2E) and 00 00 00 hi lo (case 4E with Lc = 0)
C29_OnlyZeroLc ==
    (pc = "done" /\ rx.tag = "Ok") =>
        LET view == CommandView_try_from(wire.buf)
            hdr == SubSeq(wire.buf, 1, HEADER_LEN)
            le == ToBeBytes(view.le % EXT_LE_MAX)
        IN  IF view.extended /\ Len(view.data) = 0 /\ view.le # 0
            THEN {wire.buf} \cup Twins(wire.buf) =
                    {hdr \o <<0>> \o le, hdr \o <<0, 0, 0>> \o le}
            ELSE Twins(wire.buf) = {}

(***************************************************************************)
(* Claims about nested commands                                            *)
(***************************************************************************)
\* a command built with CommandBuilder::new (forced or not) around another
\* command has been serialized and its bytes have been decoded
NestedDecoded ==
    /\ command.some
    /\ orig.extended_length \in {"Supported", "Forced"}
    /\ pc \in {"done", "error"}

\* the outer data is the inner serialization and the outer Lc its length
NestedPayload ==
    /\ pc = "done"
    /\ rx.tag = "Ok"
    /\ acc.data = serialize_to_vec(command.b, Payload(command.b.data.len))
    /\ Len(acc.data) = required_len(command.b)
    /\ parsed.lc = required_len(command.b)

\* the view decoded from the outer data equals the inner builder
InnerEq ==
    LET inner_view == CommandView_try_from(acc.data) IN
    /\ inner_view.tag = "Ok"
    /\ Builder_eq_View(command.b, Payload(command.b.data.len), inner_view)

\* the outer view equals the builder with the outer header, the decoded
\* data field and the outer le
OuterEq ==
    Builder_eq_View([orig EXCEPT !.data = Slice(0, Len(acc.data))], acc.data,
                    as_view(acc))

\* C24: a builder used as the data of another builder contributes its whole
\* serialization as the outer payload and the outer Lc is
\* inner.required_len(); the outer APDU decodes, its data field decodes to
\* a view equal to the inner builder, and the outer view equals a builder
\* with the outer header, that data field and the outer le - for every
\* inner and outer le.
C24_Nested == NestedDecoded => (NestedPayload /\ InnerEq /\ OuterEq)

\* the same for inner and outer le that are numbers
C24_NestedNe ==
    (NestedDecoded /\ command.b.le.tag = "Ne" /\ orig.le.tag = "Ne") =>
        (NestedPayload /\ InnerEq /\ OuterEq)

\* with ExpectedLen::Max the payload is still the inner serialization; the
\* inner views differ exactly when the inner le is Max and the outer ones
\* exactly when the outer le is Max
C24_MaxDiffers ==
    NestedDecoded =>
        /\ NestedPayload
        /\ InnerEq <=> (command.b.le.tag = "Ne")
        /\ OuterEq <=> (orig.le.tag = "Ne")

\* test::nested_commands with numbers for both le
C24_NestedReached ==
    /\ NestedDecoded
    /\ command.b.data.len = 6
    /\ command.b.le = Ne(16)
    /\ orig.le = Ne(1)
    /\ InnerEq

=============================================================================
